---- MODULE Spec2Model ----
(***************************************************************************)
(* Model of the videoml-player core: the composition time resolver         *)
(* (src/src/xml.ts, loadVideoFileFromXml) and the playback timeline        *)
(* scheduler (src/src/runtime.ts, createTimeline / mountVmlPlayer).        *)
(*                                                                         *)
(* Times are integers in milliseconds.  A value that the code holds as     *)
(* `number | null | undefined` is an optional: None or Some(x).            *)
(***************************************************************************)
EXTENDS Integers, Sequences, FiniteSets, TLC

\* ------------------------------------------------------------------------
\* Optional values, NaN
\* ------------------------------------------------------------------------
None == <<>>
Some(x) == <<x>>
IsSome(o) == Len(o) > 0
Val(o) == o[1]
OrElse(o, d) == IF IsSome(o) THEN Val(o) ELSE d

\* Number.parseFloat of a string that does not start with a number.  The model
\* admits no negative literal and no subtraction, so -1 is free to stand for NaN;
\* NumAdd / NumMax / NumDiv propagate it as IEEE arithmetic does.
NaN == -1
NumAdd(a, b) == IF a = NaN \/ b = NaN THEN NaN ELSE a + b
NumMax(a, b) == IF a = NaN \/ b = NaN THEN NaN ELSE IF a >= b THEN a ELSE b
NumDiv(a, b) == IF a = NaN \/ b = NaN \/ b = 0 THEN NaN ELSE a \div b

MsPerSec == 1000
DefaultFps == 30
DEFAULT_SEQUENCE_CHILD_SECONDS == 1

\* ------------------------------------------------------------------------
\* Attribute strings that parseNumber reads, as sequences of characters
\* ------------------------------------------------------------------------
Digits == {"0", "1", "2", "3", "4", "5", "6", "7", "8", "9"}
DigitVal(c) ==
    CASE c = "0" -> 0 [] c = "1" -> 1 [] c = "2" -> 2 [] c = "3" -> 3 [] c = "4" -> 4
      [] c = "5" -> 5 [] c = "6" -> 6 [] c = "7" -> 7 [] c = "8" -> 8 [] c = "9" -> 9

\* The longest run of the character set cs in s starting at position i.
RECURSIVE RunLen(_, _, _)
RunLen(s, i, cs) == IF i <= Len(s) /\ s[i] \in cs THEN 1 + RunLen(s, i + 1, cs) ELSE 0

\* The regular expression literal of parseNumber, /^[-+]?\\d+(\\.\\d+)?$/ : in a
\* regex literal "\\" is one literal backslash, so the pattern reads: optional
\* sign, a backslash, one or more letters d, then optionally (a backslash, any
\* one character, a backslash, one or more letters d), end of input.
NumberRegexTest(s) ==
    LET i0 == IF Len(s) >= 1 /\ s[1] \in {"-", "+"} THEN 2 ELSE 1
        bs1 == i0 <= Len(s) /\ s[i0] = "\\"
        n1 == RunLen(s, i0 + 1, {"d"})
        i1 == i0 + 1 + n1
        \* "d+" is greedy but may give back letters: every split point is tried
        tailOk(j) ==
            \/ j = Len(s) + 1
            \/ /\ j + 2 <= Len(s)
               /\ s[j] = "\\"
               /\ s[j + 1] /= "\n"
               /\ s[j + 2] = "\\"
               /\ RunLen(s, j + 3, {"d"}) >= 1
               /\ j + 3 + RunLen(s, j + 3, {"d"}) = Len(s) + 1
    IN  bs1 /\ n1 >= 1 /\ \E j \in (i0 + 2)..i1 : tailOk(j)

\* Number.parseFloat on an unsigned string: the leading decimal digits, NaN when
\* there is none (fractions are not needed by the inputs the model draws).
RECURSIVE DigitsValue(_, _, _)
DigitsValue(s, n, acc) ==
    IF n = 0 THEN acc ELSE DigitsValue(Tail(s), n - 1, acc * 10 + DigitVal(Head(s)))
ParseFloat(s) ==
    LET n == RunLen(s, 1, Digits)
    IN  IF n = 0 THEN NaN ELSE DigitsValue(s, n, 0)

\* parseNumber: null for an empty value, null when the regex does not match
parseNumber(value) ==
    IF ~IsSome(value) \/ Len(Val(value)) = 0 THEN None
    ELSE IF ~NumberRegexTest(Val(value)) THEN None
    ELSE Some(ParseFloat(Val(value)))

\* ------------------------------------------------------------------------
\* Markup elements and time expressions (the tree DOMParser hands over)
\* ------------------------------------------------------------------------
\* A parsed time expression (parseTimeExpression's AST).  k = "num" is a numeric
\* literal v with its unit; every other kind is a reference followed by "+ v"
\* (a binary node whose right operand is the unit-less literal v).
Num(v, unit) == [k |-> "num", id |-> "", v |-> v, unit |-> unit]
Ref(k, id, v) == [k |-> k, id |-> id, v |-> v, unit |-> ""]

\* An element: tag, id attribute ("" when absent), the three timing attributes
\* (None when absent, else Some(expression)), the styles attribute (None when
\* absent, else Some(text)) and the child elements.
El(tag, id, start, end, duration, children) ==
    [tag |-> tag, id |-> id, start |-> start, end |-> end,
     duration |-> duration, styles |-> None, children |-> children]
\* JSON.parse(raw) throws a SyntaxError: of the texts the documents carry, "{}"
\* is JSON and "{" is not
JsonThrows(raw) == raw /= "{}"

SceneIds == {"a", "b", "c"}
CueIds == {"c1", "c2"}
EmptyIndex(ids) == [i \in ids |-> None]

\* ------------------------------------------------------------------------
\* evalTimeAst against a TimeEvalContext.  None = MissingTimeReferenceError.
\* ------------------------------------------------------------------------
EvalNumber(v, unit, fps) ==
    IF unit = "f" THEN NumDiv(v * MsPerSec, fps)
    ELSE IF unit = "ms" THEN v
    ELSE v * MsPerSec

getPrevStart(ctx) == IF IsSome(ctx.prev) THEN ctx.sceneStartIndex[Val(ctx.prev)] ELSE None
getPrevEnd(ctx) == IF IsSome(ctx.prev) THEN ctx.sceneEndIndex[Val(ctx.prev)] ELSE None
getNextStart(ctx) == IF IsSome(ctx.next) THEN ctx.sceneStartIndex[Val(ctx.next)] ELSE None

EvalRef(node, ctx) ==
    CASE node.k = "sceneStart" -> ctx.sceneStartIndex[node.id]
      [] node.k = "sceneEnd" -> ctx.sceneEndIndex[node.id]
      [] node.k = "cue" -> ctx.cueStartIndex[node.id]
      [] node.k = "prevStart" -> getPrevStart(ctx)
      [] node.k = "prevEnd" -> getPrevEnd(ctx)
      [] node.k = "nextStart" -> getNextStart(ctx)
      [] node.k = "timelineStart" -> Some(0)

evalTimeAst(node, ctx) ==
    IF node.k = "num" THEN Some(EvalNumber(node.v, node.unit, ctx.fps))
    ELSE LET left == EvalRef(node, ctx)
         IN  IF IsSome(left)
             THEN Some(NumAdd(Val(left), EvalNumber(node.v, "", ctx.fps)))
             ELSE None

\* An attribute that is a time expression: [thrown, v].  thrown = the evaluation
\* raised MissingTimeReferenceError; v = the value, None when the attribute is
\* absent (the code's `raw ? parseTimeValue(raw, ctx) : undefined`).
AttrValue(r) == [thrown |-> ~IsSome(r), v |-> r]
AttrTime(attr, ctx) ==
    IF ~IsSome(attr) THEN [thrown |-> FALSE, v |-> None]
    ELSE AttrValue(evalTimeAst(Val(attr), ctx))

\* parseTiming: [thrown, def, startSec, endSec]; def = FALSE is `undefined`.
\* TimingOf is its body once the attributes present have been evaluated to s, e, d.
TimingThrown == [thrown |-> TRUE, def |-> FALSE, startSec |-> None, endSec |-> None]
TimingOf(el, s, e, d, start) ==
    IF ~IsSome(el.start) /\ ~IsSome(el.end) /\ ~IsSome(el.duration)
    THEN [thrown |-> FALSE, def |-> FALSE, startSec |-> None, endSec |-> None]
    ELSE IF s.thrown \/ e.thrown THEN TimingThrown
    ELSE IF IsSome(start) /\ IsSome(el.duration) /\ ~IsSome(el.end)
    THEN IF d.thrown THEN TimingThrown
         ELSE [thrown |-> FALSE, def |-> TRUE, startSec |-> start,
               endSec |-> Some(NumAdd(Val(start), Val(d.v)))]
    ELSE [thrown |-> FALSE, def |-> TRUE, startSec |-> start, endSec |-> e.v]
TimingStart(el, s) ==
    IF IsSome(el.start) THEN s.v ELSE IF IsSome(el.duration) THEN Some(0) ELSE None
TimingWith(el, s, e, d) == TimingOf(el, s, e, d, TimingStart(el, s))
parseTiming(el, ctx) ==
    TimingWith(el, AttrTime(el.start, ctx), AttrTime(el.end, ctx), AttrTime(el.duration, ctx))

\* parseTimeRange (cues): [err, def, start, end]; err is "" or "missing" or
\* "needsStart" (`timing requires start when end or duration is provided`).
TimeRangeErr(err) == [err |-> err, def |-> FALSE, start |-> None, end |-> None]
TimeRangeOf(el, s, e, d) ==
    IF ~IsSome(el.start) /\ ~IsSome(el.end) /\ ~IsSome(el.duration) THEN TimeRangeErr("")
    ELSE IF ~IsSome(el.start) THEN TimeRangeErr("needsStart")
    ELSE IF s.thrown \/ e.thrown THEN TimeRangeErr("missing")
    ELSE IF IsSome(el.duration) /\ ~IsSome(el.end)
    THEN IF d.thrown THEN TimeRangeErr("missing")
         ELSE [err |-> "", def |-> TRUE, start |-> s.v,
               end |-> Some(NumAdd(Val(s.v), Val(d.v)))]
    ELSE [err |-> "", def |-> TRUE, start |-> s.v, end |-> e.v]
parseTimeRange(el, ctx) ==
    TimeRangeOf(el, AttrTime(el.start, ctx), AttrTime(el.end, ctx), AttrTime(el.duration, ctx))

\* parseContainerTiming: [thrown, startSec, endSec]
ContainerTimingOf(el, s, e, d, start) ==
    IF ~IsSome(el.start) /\ ~IsSome(el.end) /\ ~IsSome(el.duration)
    THEN [thrown |-> FALSE, startSec |-> 0, endSec |-> None]
    ELSE IF s.thrown \/ e.thrown
    THEN [thrown |-> TRUE, startSec |-> 0, endSec |-> None]
    ELSE IF IsSome(el.duration) /\ ~IsSome(el.end)
    THEN IF d.thrown THEN [thrown |-> TRUE, startSec |-> 0, endSec |-> None]
         ELSE [thrown |-> FALSE, startSec |-> start,
               endSec |-> Some(NumAdd(start, Val(d.v)))]
    ELSE [thrown |-> FALSE, startSec |-> start, endSec |-> e.v]
ContainerTimingWith(el, s, e, d) == ContainerTimingOf(el, s, e, d, OrElse(s.v, 0))
parseContainerTiming(el, ctx) ==
    ContainerTimingWith(el, AttrTime(el.start, ctx), AttrTime(el.end, ctx),
                        AttrTime(el.duration, ctx))

\* The tags parseContainerChildren and the layer loop step over
SkippedTags == {"scene", "cue", "layer", "pause", "voice", "bullet", "voiceover"}
IsContainer(el) == el.tag \in {"sequence", "stack"}

\* A resolved component as the output carries it
Component(el, componentIndex, startSec, endSec) ==
    [id |-> el.id, tag |-> el.tag, index |-> componentIndex,
     startSec |-> startSec, endSec |-> endSec]

\* parseComponentElement without a timing override: timing = parseTiming
ComponentOf(el, componentIndex, t) ==
    [thrown |-> t.thrown,
     component |-> Component(el, componentIndex, t.startSec, t.endSec)]
parseComponentElement(el, ctx, componentIndex) ==
    ComponentOf(el, componentIndex, parseTiming(el, ctx))

\* `maxEnd = maxEnd == null ? x : Math.max(maxEnd, x)` for a defined x
MaxEndWith(maxEnd, x) ==
    IF ~IsSome(x) THEN maxEnd
    ELSE IF IsSome(maxEnd) THEN Some(NumMax(Val(maxEnd), Val(x))) ELSE x

\* parseContainerChildren.  ContainerLoop is its `for (const child of ...)` from
\* child i on; st = [thrown, components, componentIndex, cursor, maxEnd].
\* ContainerNested is the branch for a nested sequence/stack, ContainerChild the
\* branch for a component, each with its attributes already evaluated.
ContainerNestedDone(st, flow, nested) ==
    IF nested.thrown THEN [st EXCEPT !.thrown = TRUE]
    ELSE [st EXCEPT
            !.components = st.components \o nested.components,
            !.componentIndex = nested.componentIndex,
            !.cursor = IF flow = "sequence" THEN OrElse(nested.maxEnd, st.cursor)
                       ELSE st.cursor,
            !.maxEnd = IF flow /= "sequence" THEN MaxEndWith(st.maxEnd, nested.maxEnd)
                       ELSE st.maxEnd]

ContainerChildDone(st, child, flow, childStart, childEnd) ==
    [st EXCEPT
        !.components = Append(st.components,
            Component(child, st.componentIndex, Some(childStart), childEnd)),
        !.componentIndex = st.componentIndex + 1,
        !.cursor = IF flow = "sequence" THEN OrElse(childEnd, st.cursor) ELSE st.cursor,
        !.maxEnd = IF flow /= "sequence" THEN MaxEndWith(st.maxEnd, childEnd)
                   ELSE st.maxEnd]

ChildEnd(flow, containerStart, childStart, e, d) ==
    IF IsSome(d.v) THEN Some(NumAdd(childStart, Val(d.v)))
    ELSE IF IsSome(e.v) THEN Some(NumAdd(containerStart, Val(e.v)))
    ELSE IF flow = "sequence"
    THEN Some(NumAdd(childStart, DEFAULT_SEQUENCE_CHILD_SECONDS * MsPerSec))
    ELSE None

ContainerChildAt(st, child, flow, containerStart, childStart, e, d) ==
    ContainerChildDone(st, child, flow, childStart,
                       ChildEnd(flow, containerStart, childStart, e, d))

ContainerChild(st, child, flow, containerStart, s, e, d) ==
    IF s.thrown \/ e.thrown \/ d.thrown THEN [st EXCEPT !.thrown = TRUE]
    ELSE ContainerChildAt(st, child, flow, containerStart,
             NumAdd(IF flow = "sequence" THEN st.cursor ELSE containerStart, OrElse(s.v, 0)),
             e, d)

RECURSIVE ContainerLoop(_, _, _, _, _, _)
RECURSIVE parseContainerChildren(_, _, _, _, _)
RECURSIVE ContainerNested(_, _, _, _, _, _)

ContainerResult(r, flow) ==
    [thrown |-> r.thrown, components |-> r.components,
     componentIndex |-> r.componentIndex,
     maxEnd |-> IF flow = "sequence" THEN Some(r.cursor) ELSE r.maxEnd]

parseContainerChildren(el, ctx, componentIndex, containerStart, flow) ==
    ContainerResult(
        ContainerLoop(el.children, 1,
            [thrown |-> FALSE, components |-> <<>>, componentIndex |-> componentIndex,
             cursor |-> containerStart, maxEnd |-> None],
            ctx, containerStart, flow),
        flow)

ContainerNested(st, child, ctx, containerStart, flow, childTiming) ==
    IF childTiming.thrown THEN [st EXCEPT !.thrown = TRUE]
    ELSE ContainerNestedDone(st, flow,
             parseContainerChildren(child, ctx, st.componentIndex,
                 IF flow = "sequence" THEN st.cursor
                 ELSE NumAdd(containerStart, childTiming.startSec),
                 child.tag))

ContainerStep(st, child, ctx, containerStart, flow) ==
    IF child.tag \in SkippedTags THEN st
    ELSE IF IsContainer(child)
    THEN ContainerNested(st, child, ctx, containerStart, flow,
                         parseContainerTiming(child, ctx))
    ELSE ContainerChild(st, child, flow, containerStart, AttrTime(child.start, ctx),
                        AttrTime(child.end, ctx), AttrTime(child.duration, ctx))

ContainerLoop(children, i, st, ctx, containerStart, flow) ==
    IF st.thrown \/ i > Len(children) THEN st
    ELSE ContainerLoop(children, i + 1,
                       ContainerStep(st, children[i], ctx, containerStart, flow),
                       ctx, containerStart, flow)

\* A top-level (scene or layer) sequence/stack: parseContainerTiming, then
\* parseContainerChildren from `containerTiming.startSec ?? 0`
TopContainerAt(el, ctx, componentIndex, containerTiming) ==
    IF containerTiming.thrown
    THEN [thrown |-> TRUE, components |-> <<>>, componentIndex |-> componentIndex,
          maxEnd |-> None]
    ELSE parseContainerChildren(el, ctx, componentIndex, containerTiming.startSec, el.tag)
TopContainer(el, ctx, componentIndex) ==
    TopContainerAt(el, ctx, componentIndex, parseContainerTiming(el, ctx))

\* ------------------------------------------------------------------------
\* One attempt at a scene: the body of the try block of the fixed-point loop
\* ------------------------------------------------------------------------
\* The layer loop, `for (const layerChild of Array.from(child.children))`;
\* st = [thrown, components, componentIndex]
LayerContainerDone(st, parsed) ==
    IF parsed.thrown THEN [st EXCEPT !.thrown = TRUE]
    ELSE [st EXCEPT !.components = st.components \o parsed.components,
                    !.componentIndex = parsed.componentIndex]
LayerComponentDone(st, c) ==
    IF c.thrown THEN [st EXCEPT !.thrown = TRUE]
    ELSE [st EXCEPT !.components = Append(st.components, c.component),
                    !.componentIndex = st.componentIndex + 1]
LayerStep(st, layerChild, ctx) ==
    IF layerChild.tag \in SkippedTags THEN st
    ELSE IF IsContainer(layerChild)
    THEN LayerContainerDone(st, TopContainer(layerChild, ctx, st.componentIndex))
    ELSE LayerComponentDone(st, parseComponentElement(layerChild, ctx, st.componentIndex))
RECURSIVE LayerLoop(_, _, _, _)
LayerLoop(children, i, st, ctx) ==
    IF st.thrown \/ i > Len(children) THEN st
    ELSE LayerLoop(children, i + 1, LayerStep(st, children[i], ctx), ctx)

\* The scene loop, `for (const child of Array.from(sceneEl.children))`.
\* acc = [err, cueIds, cueStartIndex, items, layers, components, componentIndex];
\* cueIds and cueStartIndex are the resolver's own set and map, written in place
\* as the loop goes; ctx reads cueStartIndex live (getCueStart is a closure).
\* err: "" | "missing" (MissingTimeReferenceError) | the fatal errors "duplicate",
\* "needsStart", "cueId", "layerId".
\* The branch for a cue: parseCue, the duplicate check, then the writes
CueAdd(ids, id) == ids \cup {id}
SceneCue(acc, child, time) ==
    IF child.id = "" THEN [acc EXCEPT !.err = "cueId"]
    ELSE IF time.err /= "" THEN [acc EXCEPT !.err = time.err]
    ELSE IF child.id \in acc.cueIds THEN [acc EXCEPT !.err = "duplicate"]
    ELSE [acc EXCEPT
            !.cueIds = CueAdd(acc.cueIds, child.id),
            !.cueStartIndex =
                IF IsSome(time.start)
                THEN [acc.cueStartIndex EXCEPT ![child.id] = time.start]
                ELSE acc.cueStartIndex,
            !.items = Append(acc.items,
                [id |-> child.id, start |-> time.start, end |-> time.end])]

\* The branch for a layer
SceneLayer(acc, child, layerTiming, l) ==
    IF child.id = "" THEN [acc EXCEPT !.err = "layerId"]
    ELSE IF layerTiming.thrown \/ l.thrown THEN [acc EXCEPT !.err = "missing"]
    ELSE [acc EXCEPT !.layers = Append(acc.layers,
             [id |-> child.id, startSec |-> layerTiming.startSec,
              endSec |-> layerTiming.endSec, components |-> l.components])]

\* The branch for a top-level sequence/stack
SceneContainer(acc, parsed) ==
    IF parsed.thrown THEN [acc EXCEPT !.err = "missing"]
    ELSE [acc EXCEPT !.components = acc.components \o parsed.components,
                     !.componentIndex = parsed.componentIndex]

\* The branch for a top-level component
SceneComponent(acc, c) ==
    IF c.thrown THEN [acc EXCEPT !.err = "missing"]
    ELSE [acc EXCEPT !.components = Append(acc.components, c.component),
                     !.componentIndex = acc.componentIndex + 1]

SceneStep(acc, child, ctx) ==
    IF child.tag = "cue" THEN SceneCue(acc, child, parseTimeRange(child, ctx))
    ELSE IF child.tag = "layer"
    THEN SceneLayer(acc, child, parseTiming(child, ctx),
             LayerLoop(child.children, 1,
                 [thrown |-> FALSE, components |-> <<>>, componentIndex |-> 0], ctx))
    ELSE IF IsContainer(child)
    THEN SceneContainer(acc, TopContainer(child, ctx, acc.componentIndex))
    ELSE SceneComponent(acc, parseComponentElement(child, ctx, acc.componentIndex))

RECURSIVE SceneLoop(_, _, _, _)
SceneLoop(children, i, acc, ctxBase) ==
    IF acc.err /= "" \/ i > Len(children) THEN acc
    ELSE SceneLoop(children, i + 1,
             SceneStep(acc, children[i], [ctxBase EXCEPT !.cueStartIndex = acc.cueStartIndex]),
             ctxBase)

\* The TimeEvalContext built for the scene at `index` (1-based here).  R is the
\* resolver state [scenes, cueIds, sceneStartIndex, sceneEndIndex, cueStartIndex];
\* prev is the already resolved output scene before it, next the element after it.
SceneCtx(root, index, R) ==
    [fps |-> OrElse(parseNumber(root.fps), DefaultFps),
     sceneStartIndex |-> R.sceneStartIndex,
     sceneEndIndex |-> R.sceneEndIndex,
     cueStartIndex |-> R.cueStartIndex,
     prev |-> IF index > 1 /\ IsSome(R.scenes[index - 1])
              THEN Some(Val(R.scenes[index - 1]).id) ELSE None,
     next |-> IF index + 1 <= Len(root.scenes) /\ root.scenes[index + 1].id /= ""
              THEN Some(root.scenes[index + 1].id) ELSE None]

\* The commit at the end of the try block: scenes[index] and the scene indices
SceneData(sceneEl, sceneTiming, acc) ==
    [id |-> sceneEl.id,
     time |-> [def |-> sceneTiming.def, start |-> sceneTiming.startSec,
               end |-> sceneTiming.endSec],
     items |-> acc.items, layers |-> acc.layers, components |-> acc.components]

CommitScene(R, index, sceneEl, sceneTiming, acc) ==
    [scenes |-> [R.scenes EXCEPT ![index] = Some(SceneData(sceneEl, sceneTiming, acc))],
     cueIds |-> acc.cueIds,
     cueStartIndex |-> acc.cueStartIndex,
     sceneStartIndex |->
         IF sceneTiming.def /\ IsSome(sceneTiming.startSec)
         THEN [R.sceneStartIndex EXCEPT ![sceneEl.id] = sceneTiming.startSec]
         ELSE R.sceneStartIndex,
     sceneEndIndex |->
         IF sceneTiming.def /\ IsSome(sceneTiming.endSec)
         THEN [R.sceneEndIndex EXCEPT ![sceneEl.id] = sceneTiming.endSec]
         ELSE R.sceneEndIndex]

\* What a try block that threw leaves behind: the writes the loop made to
\* cueIds and cueStartIndex before the throw stay (they are the resolver's own
\* set and map, not copies)
AfterThrow(R, acc) ==
    [R EXCEPT !.cueIds = acc.cueIds, !.cueStartIndex = acc.cueStartIndex]

\* After the loop the scene's styles attribute is parsed as JSON, inside the try
AttemptChildren(R, index, sceneEl, sceneTiming, acc) ==
    IF acc.err /= "" THEN [err |-> acc.err, R |-> AfterThrow(R, acc)]
    ELSE IF IsSome(sceneEl.styles) /\ JsonThrows(Val(sceneEl.styles))
    THEN [err |-> "json", R |-> AfterThrow(R, acc)]
    ELSE [err |-> "", R |-> CommitScene(R, index, sceneEl, sceneTiming, acc)]

AttemptTimed(R, index, sceneEl, ctx, sceneTiming) ==
    IF sceneEl.id = "" THEN [err |-> "sceneId", R |-> R]
    ELSE IF sceneTiming.thrown THEN [err |-> "missing", R |-> R]
    ELSE AttemptChildren(R, index, sceneEl, sceneTiming,
             SceneLoop(sceneEl.children, 1,
                 [err |-> "", cueIds |-> R.cueIds, cueStartIndex |-> R.cueStartIndex,
                  items |-> <<>>, layers |-> <<>>, components |-> <<>>,
                  componentIndex |-> 0], ctx))

AttemptWith(R, index, sceneEl, ctx) ==
    AttemptTimed(R, index, sceneEl, ctx, parseTiming(sceneEl, ctx))

\* The try block for the scene at `index`: [err, R], how it ended (err as in
\* SceneLoop, plus "sceneId") and the resolver state after it.
AttemptScene(root, index, R) ==
    AttemptWith(R, index, root.scenes[index], SceneCtx(root, index, R))

\* ------------------------------------------------------------------------
\* The compositions the resolver is run on
\* ------------------------------------------------------------------------
MaxLiteral == 2

Sec(n) == Some(Num(n, "s"))
Leaf(tag, id, start, end, duration) == El(tag, id, start, end, duration, <<>>)

\* The scene's own timing attributes <<start, end, duration>>; tgt is another scene
OwnTimings(tgt) ==
    {<<None, None, None>>,
     <<None, None, Sec(MaxLiteral)>>,
     <<Sec(1), None, Sec(MaxLiteral)>>,
     <<Some(Ref("sceneEnd", tgt, 0)), None, Sec(MaxLiteral)>>,
     <<Some(Ref("prevEnd", "", 0)), None, Sec(1)>>}

\* The scene's children; cid is the id its cue carries, tgt another scene
ChildLists(cid, tgt) ==
    {<<>>,
     <<Leaf("cue", cid, Sec(0), None, Sec(1))>>,
     <<Leaf("cue", cid, Sec(0), None, None),
       Leaf("title", "", Some(Ref("sceneStart", tgt, 1)), None, None)>>,
     <<Leaf("cue", cid, Some(Ref("sceneStart", tgt, 0)), None, None)>>,
     <<El("layer", "l", None, None, None,
          <<Leaf("cue", "c1", Sec(1), None, None),
            Leaf("rect", "", None, Some(Ref("sceneEnd", tgt, 0)), None)>>)>>,
     <<El("sequence", "", None, None, None,
          <<Leaf("rect", "", None, None, Sec(MaxLiteral)),
            Leaf("rect", "", Some(Ref("cue", "c1", 0)), None, None)>>)>>}

Scenes(id, tgts, cids) ==
    {El("scene", id, t[1], t[2], t[3], ch) :
        t \in UNION {OwnTimings(g) : g \in tgts},
        ch \in UNION {ChildLists(c, g) : c \in cids, g \in tgts}}

Compositions ==
    {[fps |-> None, scenes |-> <<sa, sb, sc>>] :
        sa \in Scenes("a", {"b"}, {"c1"}),
        sb \in Scenes("b", {"a", "c"}, {"c1", "c2"}),
        sc \in {El("scene", "c", t[1], t[2], t[3], <<>>) : t \in OwnTimings("a")}}

\* ------------------------------------------------------------------------
\* loadVideoFileFromXml as a state machine
\* ------------------------------------------------------------------------
VARIABLES
    xml,              \* the composition being resolved
    rpc,              \* where the resolver is: "idle", "while", "for", "done"
    scenes,           \* the output scene list, index -> None | Some(sceneData)
    cueIds, sceneStartIndex, sceneEndIndex, cueStartIndex,
    pending,          \* the set of scene indices not yet resolved
    passes, progressed,
    queue,            \* Array.from(pending) of the running pass, what is left of it
    result,           \* "" while running, "ok", or the error the call threw
    unresolved,       \* the scene ids the 'Unresolved time references' error names
    calls,            \* how many times loadVideoFileFromXml has been entered
    history           \* what each finished call returned or threw

rvars == <<xml, rpc, scenes, cueIds, sceneStartIndex, sceneEndIndex, cueStartIndex,
           pending, passes, progressed, queue, result, unresolved, calls, history>>

VARIABLES
    now,              \* the timestamp of the latest animation frame
    timelines,        \* the registry: group id -> clock, None before its creation
    defaultTimeline,  \* the id of the first clock created, None before
    players           \* what each player was mounted with and last was told

pvars == <<now, timelines, defaultTimeline, players>>

VARIABLES
    patchXml,         \* the document applyVomPatchesInBrowser was called with
    doc,              \* its parse of that document, which the patches change
    patches,          \* the batch it was called with
    patchIndex,       \* the position of the patch loop in the batch
    enforceSealed,    \* its third argument
    patched           \* "" while it runs, "ok" once it returned, else the error thrown

patchvars == <<patchXml, doc, patches, patchIndex, enforceSealed, patched>>

VARIABLES
    container,        \* the vml-player element has built its container
    connected,        \* it is in the document
    src,              \* it has a src attribute
    cleanup,          \* its cleanup slot: the render whose mount filled it, or None
    abort,            \* its AbortController, named by the render that made it
    aborted,          \* the controllers abort() was called on
    renders,          \* each renderPlayer call: where it is, and whether its fetch
                      \* was in flight when a later render began or the element left
    live,             \* the renders whose mounted player has not been cleaned up
    errors            \* the renders that dispatched vml:error

elvars == <<container, connected, src, cleanup, abort, aborted, renders, live, errors>>

VARIABLES
    timingXml,        \* a document whose timings are computed
    compiled,         \* what executeVomXml made of it, None before
    scheduled         \* what computeSceneTimings made of it, None before

timingvars == <<timingXml, compiled, scheduled>>

VARIABLES
    ticker            \* one clock whose tick is followed callback by callback

tickvars == <<ticker>>
nonpatchvars == <<rvars, pvars, elvars, timingvars, tickvars>>
nonelvars == <<rvars, pvars, patchvars, timingvars, tickvars>>
nontimingvars == <<rvars, pvars, patchvars, elvars, tickvars>>
nontickvars == <<rvars, pvars, patchvars, elvars, timingvars>>
xvars == <<patchvars, elvars, timingvars, tickvars>>
vars == <<rvars, pvars, xvars>>

MaxCalls == 2

RState == [scenes |-> scenes, cueIds |-> cueIds, sceneStartIndex |-> sceneStartIndex,
           sceneEndIndex |-> sceneEndIndex, cueStartIndex |-> cueStartIndex]

\* a set of indices in ascending order (the insertion order of `pending`)
RECURSIVE SortedSeq(_)
SortedSeq(S) ==
    IF S = {} THEN <<>>
    ELSE LET m == CHOOSE x \in S : \A y \in S : x <= y
         IN  <<m>> \o SortedSeq(S \ {m})

Outcome == [result |-> result, unresolved |-> unresolved, scenes |-> scenes]

RStart(root) ==
    /\ xml = root
    /\ rpc = "idle"
    /\ scenes = [i \in 1..Len(xml.scenes) |-> None]
    /\ cueIds = {}
    /\ sceneStartIndex = EmptyIndex(SceneIds)
    /\ sceneEndIndex = EmptyIndex(SceneIds)
    /\ cueStartIndex = EmptyIndex(CueIds)
    /\ pending = {}
    /\ passes = 0
    /\ progressed = FALSE
    /\ queue = <<>>
    /\ result = ""
    /\ unresolved = <<>>
    /\ calls = 0
    /\ history = <<>>
RInit == \E root \in Compositions : RStart(root)

\* `const cueIds = new Set<string>()`: created afresh by every call
StaleCueIds == cueIds
FreshCueIds == {}
\* Entry of loadVideoFileFromXml: the per-call state is created
LoadVideoFileFromXml ==
    /\ rpc \in {"idle", "done"}
    /\ calls < MaxCalls
    /\ calls' = calls + 1
    /\ rpc' = "while"
    /\ scenes' = [i \in 1..Len(xml.scenes) |-> None]
    /\ cueIds' = FreshCueIds
    /\ sceneStartIndex' = EmptyIndex(SceneIds)
    /\ sceneEndIndex' = EmptyIndex(SceneIds)
    /\ cueStartIndex' = EmptyIndex(CueIds)
    /\ pending' = 1..Len(xml.scenes)
    /\ passes' = 0
    /\ progressed' = FALSE
    /\ queue' = <<>>
    /\ result' = ""
    /\ unresolved' = <<>>
    /\ UNCHANGED <<xml, history>>
    /\ UNCHANGED <<pvars, xvars>>

Finish(res, names, outScenes) ==
    /\ rpc' = "done"
    /\ result' = res
    /\ unresolved' = names
    /\ history' = Append(history, [result |-> res, unresolved |-> names, scenes |-> outScenes])

WhileHeadKeepsProgress ==
    /\ rpc = "while"
    /\ IF pending /= {}
       THEN /\ rpc' = "for"
            /\ progressed' = progressed
            /\ queue' = SortedSeq(pending)
            /\ UNCHANGED <<result, unresolved, history>>
       ELSE /\ Finish(IF \A i \in DOMAIN scenes : ~IsSome(scenes[i]) THEN "noScenes" ELSE "ok",
                      <<>>, scenes)
            /\ UNCHANGED <<progressed, queue>>
    /\ UNCHANGED <<xml, scenes, cueIds, sceneStartIndex, sceneEndIndex, cueStartIndex,
                   pending, passes, calls>>
    /\ UNCHANGED <<pvars, xvars>>
\* `while (pending.size > 0)`: a new pass starts, or the loop is left and the
\* composition returned
WhileHead ==
    /\ rpc = "while"
    /\ IF pending /= {}
       THEN /\ rpc' = "for"
            /\ progressed' = FALSE
            /\ queue' = SortedSeq(pending)
            /\ UNCHANGED <<result, unresolved, history>>
       ELSE /\ Finish(IF \A i \in DOMAIN scenes : ~IsSome(scenes[i]) THEN "noScenes" ELSE "ok",
                      <<>>, scenes)
            /\ UNCHANGED <<progressed, queue>>
    /\ UNCHANGED <<xml, scenes, cueIds, sceneStartIndex, sceneEndIndex, cueStartIndex,
                   pending, passes, calls>>
    /\ UNCHANGED <<pvars, xvars>>

\* One iteration of `for (const index of Array.from(pending))`: the try block
\* and its catch.  TryDone is what follows the attempt a.
TryDone(index, a) ==
    /\ cueIds' = a.R.cueIds
    /\ cueStartIndex' = a.R.cueStartIndex
    /\ scenes' = a.R.scenes
    /\ sceneStartIndex' = a.R.sceneStartIndex
    /\ sceneEndIndex' = a.R.sceneEndIndex
    /\ IF a.err = ""
       THEN /\ pending' = pending \ {index}
            /\ progressed' = TRUE
            /\ queue' = Tail(queue)
            /\ UNCHANGED <<rpc, result, unresolved, history>>
       ELSE IF a.err = "missing"
       THEN /\ queue' = Tail(queue)
            /\ UNCHANGED <<rpc, result, unresolved, history, pending, progressed>>
       ELSE /\ Finish(a.err, <<>>, a.R.scenes)
            /\ UNCHANGED <<queue, pending, progressed>>

TryScene ==
    /\ rpc = "for"
    /\ queue /= <<>>
    /\ TryDone(Head(queue), AttemptScene(xml, Head(queue), RState))
    /\ UNCHANGED <<xml, passes, calls>>
    /\ UNCHANGED <<pvars, xvars>>

\* The ids the no-progress error lists: those of the scenes still pending
AllSceneNames(root, pend) == [k \in 1..Len(root.scenes) |-> root.scenes[k].id]
UnresolvedNames(root, pend) ==
    [k \in 1..Cardinality(pend) |-> root.scenes[SortedSeq(pend)[k]].id]

PassEndUnchecked ==
    /\ rpc = "for"
    /\ queue = <<>>
    /\ passes' = passes + 1
    /\ IF passes + 1 > Len(xml.scenes) + 2
       THEN Finish("noConverge", <<>>, scenes)
       ELSE /\ rpc' = "while"
            /\ UNCHANGED <<result, unresolved, history>>
    /\ UNCHANGED <<xml, scenes, cueIds, sceneStartIndex, sceneEndIndex, cueStartIndex,
                   pending, progressed, queue, calls>>
    /\ UNCHANGED <<pvars, xvars>>
\* After the for loop: the pass is counted and the two failure checks run
PassEnd ==
    /\ rpc = "for"
    /\ queue = <<>>
    /\ passes' = passes + 1
    /\ IF ~progressed
       THEN Finish("unresolved", UnresolvedNames(xml, pending), scenes)
       ELSE IF passes + 1 > Len(xml.scenes) + 2
       THEN Finish("noConverge", <<>>, scenes)
       ELSE /\ rpc' = "while"
            /\ UNCHANGED <<result, unresolved, history>>
    /\ UNCHANGED <<xml, scenes, cueIds, sceneStartIndex, sceneEndIndex, cueStartIndex,
                   pending, progressed, queue, calls>>
    /\ UNCHANGED <<pvars, xvars>>

RNext == LoadVideoFileFromXml \/ WhileHead \/ TryScene \/ PassEnd


\* ------------------------------------------------------------------------
\* executeVomXml as one function: the resolver loop run to its end
\* ------------------------------------------------------------------------
\* The state loadVideoFileFromXml creates on entry
FreshR(root) ==
    [scenes |-> [i \in 1..Len(root.scenes) |-> None], cueIds |-> {},
     sceneStartIndex |-> EmptyIndex(SceneIds), sceneEndIndex |-> EmptyIndex(SceneIds),
     cueStartIndex |-> EmptyIndex(CueIds)]

\* One try block and its catch, on the loop state st = [R, pending, progressed,
\* passes, result]
ForDone(st, index, a) ==
    IF a.err = ""
    THEN [st EXCEPT !.R = a.R, !.pending = @ \ {index}, !.progressed = TRUE]
    ELSE IF a.err = "missing" THEN [st EXCEPT !.R = a.R]
    ELSE [st EXCEPT !.R = a.R, !.result = a.err]

RECURSIVE ForLoop(_, _, _)
ForLoop(root, st, q) ==
    IF q = <<>> \/ st.result /= "" THEN st
    ELSE ForLoop(root, ForDone(st, Head(q), AttemptScene(root, Head(q), st.R)), Tail(q))

RECURSIVE WhileLoop(_, _)
AfterPass(root, st) ==
    IF st.result /= "" THEN st
    ELSE IF ~st.progressed THEN [st EXCEPT !.passes = @ + 1, !.result = "unresolved"]
    ELSE IF st.passes + 1 > Len(root.scenes) + 2
    THEN [st EXCEPT !.passes = @ + 1, !.result = "noConverge"]
    ELSE WhileLoop(root, [st EXCEPT !.passes = @ + 1])
WhileLoop(root, st) ==
    IF st.pending = {}
    THEN [st EXCEPT !.result = IF \A i \in DOMAIN st.R.scenes : ~IsSome(st.R.scenes[i])
                               THEN "noScenes" ELSE "ok"]
    ELSE AfterPass(root, ForLoop(root, [st EXCEPT !.progressed = FALSE],
                                 SortedSeq(st.pending)))

\* [result, fps]: how the call ended ("ok" when it returned a composition) and
\* meta.fps of the composition it returned
executeVomXml(root) ==
    [result |-> WhileLoop(root, [R |-> FreshR(root), pending |-> 1..Len(root.scenes),
                                 progressed |-> FALSE, passes |-> 0,
                                 result |-> ""]).result,
     fps |-> OrElse(parseNumber(root.fps), DefaultFps)]

\* A whole markup text: the root element's tag, its id ("" when absent), its
\* duration attribute, the leadInSeconds attribute of its voiceover child (None
\* when there is none), and the fps attribute and the scenes in `body`
Page(tag, id, duration, leadInSeconds, body) ==
    [tag |-> tag, id |-> id, duration |-> duration, leadInSeconds |-> leadInSeconds,
     body |-> body]
allowedRoots == {"videoml", "video-ml", "vml"}
\* baseCtx: every lookup of a scene, a cue or a neighbour answers null
baseCtx(fps) ==
    [fps |-> fps, sceneStartIndex |-> EmptyIndex(SceneIds),
     sceneEndIndex |-> EmptyIndex(SceneIds), cueStartIndex |-> EmptyIndex(CueIds),
     prev |-> None, next |-> None]
\* What follows the pass loop when it ended as `looped`: the voiceover child is
\* read, then the scene list is tested
AfterLoop(page, looped) ==
    IF looped \notin {"ok", "noScenes"} THEN looped
    ELSE IF AttrTime(page.leadInSeconds, baseCtx(executeVomXml(page.body).fps)).thrown
    THEN "MissingTimeReferenceError"
    ELSE looped
\* loadVideoFileFromXml(xml) from its first line: "ok" when it returns a
\* composition, else the error that leaves it; "MissingTimeReferenceError" is
\* the signal of an unresolved reference thrown outside the loop's try block
loadVideoFileFromXml(page) ==
    IF page.tag \notin allowedRoots THEN "root"
    ELSE IF page.id = "" THEN "vmlId"
    ELSE IF AttrTime(page.duration, baseCtx(executeVomXml(page.body).fps)).thrown
    THEN "MissingTimeReferenceError"
    ELSE AfterLoop(page, executeVomXml(page.body).result)

\* ------------------------------------------------------------------------
\* runtime: scene timings of a mounted document
\* ------------------------------------------------------------------------
\* parseTimeSeconds on the attribute text of a time expression.  Its three unit
\* patterns are written with "\\" and so ask for a backslash in the value; a
\* value without one falls through to Number.parseFloat, which reads the leading
\* number of a literal whatever its unit, and NaN (null) from a reference.
parseTimeSeconds(raw, fps) ==
    IF ~IsSome(raw) THEN None
    ELSE IF Val(raw).k = "num" THEN Some(Val(raw).v * MsPerSec)
    ELSE None

RECURSIVE elementDuration(_, _)
RECURSIVE SequenceDuration(_, _, _, _, _)
RECURSIVE MaxChildDuration(_, _, _, _)

SequenceChild(children, i, cursor, maxEnd, fps, localStart, childDur) ==
    IF ~IsSome(childDur) THEN None
    ELSE SequenceDuration(children, i + 1, localStart + Val(childDur),
                          IF localStart + Val(childDur) > maxEnd
                          THEN localStart + Val(childDur) ELSE maxEnd, fps)
SequenceDuration(children, i, cursor, maxEnd, fps) ==
    IF i > Len(children) THEN Some(maxEnd)
    ELSE SequenceChild(children, i, cursor, maxEnd, fps,
                       OrElse(parseTimeSeconds(children[i].start, fps), cursor),
                       elementDuration(children[i], fps))

MaxChild(children, i, maxDur, fps, childStart, childDur) ==
    IF ~IsSome(childDur) THEN None
    ELSE MaxChildDuration(children, i + 1,
                          IF ~IsSome(maxDur) \/ childStart + Val(childDur) > Val(maxDur)
                          THEN Some(childStart + Val(childDur)) ELSE maxDur, fps)
MaxChildDuration(children, i, maxDur, fps) ==
    IF i > Len(children) THEN maxDur
    ELSE MaxChild(children, i, maxDur, fps,
                  OrElse(parseTimeSeconds(children[i].start, fps), 0),
                  elementDuration(children[i], fps))

EndMinusStart(startAttr, endAttr) ==
    IF endAttr - startAttr > 0 THEN endAttr - startAttr ELSE 0
elementDuration(el, fps) ==
    IF IsSome(parseTimeSeconds(el.duration, fps)) THEN parseTimeSeconds(el.duration, fps)
    ELSE IF IsSome(parseTimeSeconds(el.end, fps))
    THEN Some(EndMinusStart(OrElse(parseTimeSeconds(el.start, fps), 0),
                            Val(parseTimeSeconds(el.end, fps))))
    ELSE IF Len(el.children) = 0 THEN None
    ELSE IF el.tag = "sequence" THEN SequenceDuration(el.children, 1, 0, 0, fps)
    ELSE MaxChildDuration(el.children, 1, None, fps)

\* The scene loop of computeSceneTimings: timing is the list pushed so far
RECURSIVE SceneTimingLoop(_, _, _, _, _)
SceneTimingPush(sceneEls, i, cursor, timing, fps, start, durationAttr) ==
    SceneTimingLoop(sceneEls, i + 1,
                    IF IsSome(durationAttr) THEN start + Val(durationAttr) ELSE cursor,
                    Append(timing, [id |-> sceneEls[i].id, start |-> start,
                                    end |-> IF IsSome(durationAttr)
                                            THEN Some(start + Val(durationAttr))
                                            ELSE None]),
                    fps)
SceneTimingLoop(sceneEls, i, cursor, timing, fps) ==
    IF i > Len(sceneEls) THEN timing
    ELSE SceneTimingPush(sceneEls, i, cursor, timing, fps,
                         OrElse(parseTimeSeconds(sceneEls[i].start, fps), cursor),
                         elementDuration(sceneEls[i], fps))

\* `duration`: the greatest end among the scenes that have one
RECURSIVE MaxSceneEnd(_, _, _)
MaxSceneEnd(timing, i, duration) ==
    IF i > Len(timing) THEN duration
    ELSE MaxSceneEnd(timing, i + 1,
                     IF IsSome(timing[i].end)
                        /\ (~IsSome(duration) \/ Val(timing[i].end) > Val(duration))
                     THEN timing[i].end ELSE duration)

\* ------------------------------------------------------------------------
\* runtime: the cues and the timed elements of a mounted document
\* ------------------------------------------------------------------------
\* sceneEl.querySelectorAll("cue"): the cue elements below el in document order
RECURSIVE CuesBelow(_, _)
CuesBelow(children, i) ==
    IF i > Len(children) THEN <<>>
    ELSE (IF children[i].tag = "cue" THEN <<children[i]>> ELSE <<>>)
         \o CuesBelow(children[i].children, 1) \o CuesBelow(children, i + 1)

\* The entry computeSceneTimings pushes for one cue of a scene that spans
\* start..end, none when the cue has no id or gets no start
CueEntry(cue, start, cueStart, cueDurationAttr, cueEndAttr) ==
    IF ~IsSome(cueStart) THEN <<>>
    ELSE <<[id |-> cue.id, start |-> start + Val(cueStart),
            end |-> IF IsSome(cueDurationAttr)
                    THEN Some(start + Val(cueStart) + Val(cueDurationAttr))
                    ELSE IF IsSome(cueEndAttr) THEN Some(start + Val(cueEndAttr))
                    ELSE None]>>
CueStartOf(start, end, cueStartAttr, cueEndAttr) ==
    IF IsSome(cueStartAttr) THEN cueStartAttr
    ELSE IF IsSome(cueEndAttr) /\ IsSome(end)
    THEN Some(IF Val(cueEndAttr) - start > start THEN Val(cueEndAttr) - start ELSE start)
    ELSE None
CueTiming(cue, start, end, fps) ==
    IF cue.id = "" THEN <<>>
    ELSE CueEntry(cue, start,
                  CueStartOf(start, end, parseTimeSeconds(cue.start, fps),
                             parseTimeSeconds(cue.end, fps)),
                  parseTimeSeconds(cue.duration, fps), parseTimeSeconds(cue.end, fps))
RECURSIVE CueTimings(_, _, _, _, _)
CueTimings(cues, i, start, end, fps) ==
    IF i > Len(cues) THEN <<>>
    ELSE CueTiming(cues[i], start, end, fps) \o CueTimings(cues, i + 1, start, end, fps)
\* The cue list of the whole document: scene after scene, given their timings
RECURSIVE AllCueTimings(_, _, _, _)
AllCueTimings(sceneEls, timing, i, fps) ==
    IF i > Len(sceneEls) THEN <<>>
    ELSE CueTimings(CuesBelow(sceneEls[i].children, 1), 1, timing[i].start,
                    timing[i].end, fps)
         \o AllCueTimings(sceneEls, timing, i + 1, fps)

TIMING_TAG_EXCLUDE == {"cue", "voice", "pause", "bullet"}
\* defaultChildDuration of a container that declares none
DefaultChildDuration == MsPerSec

\* computeTimedElements: walk(container, baseStart, flow) over the children from
\* the i-th on; an element is named by its path of child positions from the scene
RECURSIVE Walk(_, _, _, _, _, _, _)
ChildFlow(tag, flow) ==
    IF tag = "sequence" THEN "sequence" ELSE IF tag = "stack" THEN "stack" ELSE flow
\* localEnd after the push: the declared end, or the fallback end in a sequence
LocalEnd(baseStart, flow, localStart, durationAttr, endAttr) ==
    IF IsSome(durationAttr) THEN Some(localStart + Val(durationAttr))
    ELSE IF IsSome(endAttr) THEN Some(baseStart + Val(endAttr))
    ELSE IF flow = "sequence" THEN Some(localStart + DefaultChildDuration)
    ELSE None
WalkChild(children, i, baseStart, flow, cursor, path, fps, localStart, localEnd) ==
    (IF IsSome(localEnd)
     THEN <<[path |-> Append(path, i), start |-> localStart, end |-> Val(localEnd)]>>
     ELSE <<>>)
    \o (IF children[i].tag \in {"sequence", "stack", "layer", "scene"}
        THEN Walk(children[i].children, 1, localStart,
                  ChildFlow(children[i].tag, flow), localStart, Append(path, i), fps)
        ELSE <<>>)
    \o Walk(children, i + 1, baseStart, flow,
            IF flow = "sequence" THEN OrElse(localEnd, cursor) ELSE cursor, path, fps)
WalkAt(children, i, baseStart, flow, cursor, path, fps, localStart) ==
    WalkChild(children, i, baseStart, flow, cursor, path, fps, localStart,
              LocalEnd(baseStart, flow, localStart,
                       parseTimeSeconds(children[i].duration, fps),
                       parseTimeSeconds(children[i].end, fps)))
Walk(children, i, baseStart, flow, cursor, path, fps) ==
    IF i > Len(children) THEN <<>>
    ELSE IF children[i].tag \in TIMING_TAG_EXCLUDE
    THEN Walk(children, i + 1, baseStart, flow, cursor, path, fps)
    ELSE WalkAt(children, i, baseStart, flow, cursor, path, fps,
                (IF flow = "sequence" THEN cursor ELSE baseStart)
                + OrElse(parseTimeSeconds(children[i].start, fps), 0))
computeTimedElements(sceneEl, sceneStart, fps) ==
    Walk(sceneEl.children, 1, sceneStart, "stack", sceneStart, <<>>, fps)

\* timedByScene: for every scene the list computeTimedElements gives
TimedByScene(sceneEls, timing, fps) ==
    [i \in 1..Len(sceneEls) |-> computeTimedElements(sceneEls[i], timing[i].start, fps)]

SceneTimingsOf(root, timing, fps) ==
    [scenes |-> timing, cues |-> AllCueTimings(root.scenes, timing, 1, fps),
     duration |-> MaxSceneEnd(timing, 1, None), fps |-> fps,
     timed |-> TimedByScene(root.scenes, timing, fps)]
\* computeSceneTimings for a document executeVomXml accepts (it throws otherwise),
\* with the timedByScene map mountVmlPlayer builds from its result
computeSceneTimings(root) ==
    SceneTimingsOf(root,
                   SceneTimingLoop(root.scenes, 1, 0, <<>>, executeVomXml(root).fps),
                   executeVomXml(root).fps)

\* ------------------------------------------------------------------------
\* runtime: createTimeline, the clock behind a synchronization group
\* ------------------------------------------------------------------------
\* A clock: the closure variables of createTimeline; raf tells that a tick
\* callback is waiting for the next animation frame.  Times are milliseconds.
createTimeline(id, fps, clockMode, loop, duration) ==
    [id |-> id, fps |-> fps, clockMode |-> clockMode, loop |-> loop,
     duration |-> duration, raf |-> FALSE, lastTs |-> None, running |-> FALSE,
     frame |-> 0, time |-> 0, subs |-> <<>>]

\* Math.floor(time * fps)
FrameOf(time, fps) == IF fps = NaN THEN NaN ELSE (time * fps) \div MsPerSec

AtEndStrict(c, nextTime) ==
    c.clockMode = "bounded" /\ IsSome(c.duration) /\ nextTime > Val(c.duration)
\* `nextTime >= duration` in a bounded clock that knows its duration
AtEnd(c, nextTime) ==
    c.clockMode = "bounded" /\ IsSome(c.duration) /\ nextTime >= Val(c.duration)

ZeroTime(nextTime, duration) == 0
LoopTime(nextTime, duration) == IF duration > 0 THEN nextTime % duration ELSE 0
KeepTime(nextTime, duration) == nextTime
ClampTime(nextTime, duration) == duration

TickTime(c, nextTime) ==
    IF AtEnd(c, nextTime)
    THEN IF c.loop THEN LoopTime(nextTime, Val(c.duration))
         ELSE ClampTime(nextTime, Val(c.duration))
    ELSE nextTime
TickRunning(c, nextTime) == ~(AtEnd(c, nextTime) /\ ~c.loop)

NextTimeFromOrigin(c, ts) == c.time + (ts - OrElse(c.lastTs, 0))
\* time + delta, delta measured from lastTs (from ts itself when lastTs is null)
NextTime(c, ts) == c.time + (ts - OrElse(c.lastTs, ts))

TickTo(c, ts, nextTime) ==
    [c EXCEPT !.lastTs = Some(ts),
              !.time = TickTime(c, nextTime),
              !.frame = FrameOf(TickTime(c, nextTime), c.fps),
              !.running = TickRunning(c, nextTime),
              !.raf = TickRunning(c, nextTime)]
\* tick(ts), the animation-frame callback, as far as the clock itself goes
tick(c, ts) ==
    IF ~c.running THEN [c EXCEPT !.raf = FALSE] ELSE TickTo(c, ts, NextTime(c, ts))

start(c) ==
    IF c.running THEN c
    ELSE [c EXCEPT !.running = TRUE, !.lastTs = None, !.raf = TRUE]
stop(c) == [c EXCEPT !.running = FALSE, !.raf = FALSE, !.lastTs = None]
\* subs is a Set of functions, which keeps them in the order they were added
SubSet(c) == {c.subs[i] : i \in DOMAIN c.subs}
subscribe(c, fn) == IF fn \in SubSet(c) THEN c ELSE [c EXCEPT !.subs = Append(@, fn)]
unsubscribe(c, fn) == [c EXCEPT !.subs = SelectSeq(@, LAMBDA x : x /= fn)]

\* ------------------------------------------------------------------------
\* runtime: mountVmlPlayer, the players and the registry of clocks
\* ------------------------------------------------------------------------
Players == {"p1", "p2"}
Groups == {"g1"}

MaxTs == 1600
ShortFrame == 500
LongFrame == 1100
FrameDeltas == {ShortFrame, LongFrame}

\* The documents mounted.  OneScene: a single scene a with the duration attribute
\* d; the fps attribute is absent, "25", or the two characters \d.  TwoWaiting:
\* two scenes that each start at the other's end.
OneScene(fps, d) == [fps |-> fps, scenes |-> <<Leaf("scene", "a", None, None, d)>>]
TwoWaiting ==
    [fps |-> None,
     scenes |-> <<Leaf("scene", "a", Some(Ref("sceneEnd", "b", 0)), None, Sec(1)),
                  Leaf("scene", "b", Some(Ref("sceneEnd", "a", 0)), None, Sec(1))>>]
PlayerXmls ==
    {OneScene(None, None), OneScene(None, Sec(0)), OneScene(None, Sec(1)),
     OneScene(Some(<<"2", "5">>), Sec(1)), OneScene(Some(<<"\\", "d">>), Sec(1)),
     TwoWaiting}
\* The documents each player is mounted with: the second player joins with a
\* document of the same length, with or without a readable frame rate
XmlsOf(p) ==
    IF p = "p1" THEN PlayerXmls
    ELSE {OneScene(None, Sec(1)), OneScene(Some(<<"\\", "d">>), Sec(1))}
\* clockMode and loop of a mount (loop is not read in live mode)
ClockOptions == {<<"live", FALSE>>, <<"bounded", FALSE>>, <<"bounded", TRUE>>}

\* A player: the options and timings its handleTick closes over (scenes, cues,
\* timed), what it last published (seen, events), the scenes it marked active,
\* the timed elements it hid, and its lastActiveSceneId and activeCues;
\* openScene is what a listener of its scene events holds: the scene whose
\* scene:start it heard last, none once a scene:end followed; error is what its
\* last mount reported or threw, none when that mount went through; records
\* tells that its MutationObserver holds records it was not yet called with,
\* observerRaf that flushObserver is requested, xmlChanges counts the calls of
\* onXmlChange, and late lists what it delivered after its cleanup had run;
\* edits counts the page's edits of its live tree, batch the observer callbacks
\* since the last flush, flushRequests the flushObserver callbacks that wait
\* for a frame, and lastXml is the tree (as its count of edits) that
\* onXmlChange was last called with
Unmounted ==
    [mounted |-> FALSE, group |-> "g1", fps |-> DefaultFps, autoPlay |-> FALSE,
     seen |-> None, scenes |-> <<>>, cues |-> <<>>, timed |-> <<>>,
     activeScenes |-> {}, hidden |-> {}, lastActiveSceneId |-> None,
     activeCues |-> {}, events |-> <<>>, openScene |-> None, error |-> None,
     records |-> FALSE, observerRaf |-> FALSE, xmlChanges |-> 0, late |-> <<>>,
     edits |-> 0, batch |-> 0, flushRequests |-> 0, pendingSerialize |-> FALSE,
     lastXml |-> None]

\* A parsed document of the patcher: an element has its tag, its id attribute
\* ("" when absent), the attributes sealed, data-sealed and x (None when
\* absent), its text and its child elements
AttrNames == {"sealed", "data-sealed", "x"}
Attrs(sealed, dataSealed) ==
    [a \in AttrNames |-> IF a = "sealed" THEN sealed
                         ELSE IF a = "data-sealed" THEN dataSealed ELSE None]
Node(tag, id, attrs, children) ==
    [tag |-> tag, id |-> id, attrs |-> attrs, text |-> "", children |-> children]
\* No call of applyVomPatchesInBrowser is under way
PatchIdle ==
    /\ patchXml = Node("vml", "v", Attrs(None, None), <<>>)
    /\ doc = patchXml
    /\ patches = <<>>
    /\ patchIndex = 1
    /\ enforceSealed = FALSE
    /\ patched = "ok"
\* No vml-player element exists
ElementIdle ==
    /\ container = FALSE /\ connected = FALSE /\ src = FALSE
    /\ cleanup = None /\ abort = None /\ aborted = {}
    /\ renders = <<>> /\ live = {} /\ errors = {}
\* No document is being timed
TimingIdle == timingXml = <<>> /\ compiled = None /\ scheduled = None
\* A clock with its animation-frame requests: c is the clock, ts the timestamp
\* of the current frame, requests the callbacks requested and neither run nor
\* cancelled, due those of them the current frame still has to run, rafId the
\* value of `raf`, nextId the id the next request gets; while a tick delivers
\* (pc = "deliver"), queue holds the subscribers still to be called, from is the
\* time before the tick and atTick the value nextId had when the tick began
Ticker(c) ==
    [c |-> c, ts |-> 0, requests |-> {}, due |-> {}, rafId |-> None, nextId |-> 1,
     pc |-> "idle", queue |-> <<>>, from |-> 0, atTick |-> 1]
\* No clock is followed
TickerIdle == ticker = Ticker(createTimeline("g1", DefaultFps, "live", FALSE, None))
XIdle == PatchIdle /\ ElementIdle /\ TimingIdle /\ TickerIdle

PInit ==
    /\ now = 0
    /\ timelines = [g \in Groups |-> None]
    /\ defaultTimeline = None
    /\ players = [p \in Players |-> Unmounted]

\* ---- handleTick ----
OwnEndOnly(timing, i) == timing[i].end
\* `scene.end ?? (nextScene ? nextScene.start : null)`
SceneUpper(timing, i) ==
    IF IsSome(timing[i].end) THEN timing[i].end
    ELSE IF i + 1 <= Len(timing) THEN Some(timing[i + 1].start) ELSE None
SceneIsActive(timing, i, timeSec) ==
    /\ timeSec >= timing[i].start
    /\ (~IsSome(SceneUpper(timing, i)) \/ timeSec < Val(SceneUpper(timing, i)))
ActiveScenes(timing, timeSec) == {i \in DOMAIN timing : SceneIsActive(timing, i, timeSec)}
MaxOf(S) == CHOOSE m \in S : \A x \in S : x <= m
\* activeSceneId after the loop: the id of the last active scene, null when none
ActiveSceneId(timing, active) ==
    IF active = {} THEN None ELSE Some(timing[MaxOf(active)].id)
\* A string or null used as a condition: null and "" are falsy
Truthy(o) == IsSome(o) /\ Val(o) /= ""

\* timedByScene.get(id): the list stored under the id, by the last scene that
\* carries it and has timed elements
TimedIndex(pl, id) ==
    {i \in DOMAIN pl.scenes : pl.scenes[i].id = id /\ Len(pl.timed[i]) > 0}
ClosedItemKeys(k, list, vis, timeSec) ==
    {<<k, list[j].path>> : j \in {j \in DOMAIN list :
        (timeSec >= list[j].start /\ timeSec <= list[j].end) = vis}}
ItemKeys(k, list, vis, timeSec) ==
    {<<k, list[j].path>> : j \in {j \in DOMAIN list :
        (timeSec >= list[j].start /\ timeSec < list[j].end) = vis}}
\* The elements handleTick hides (vis = FALSE) or shows (vis = TRUE) at timeSec
TimedKeys(pl, activeSceneId, vis, timeSec) ==
    IF Truthy(activeSceneId) /\ TimedIndex(pl, Val(activeSceneId)) /= {}
    THEN ItemKeys(MaxOf(TimedIndex(pl, Val(activeSceneId))),
                  pl.timed[MaxOf(TimedIndex(pl, Val(activeSceneId)))], vis, timeSec)
    ELSE {}

Event(name, id) == [name |-> name, id |-> id]
\* The cue loop: st = [activeCues, events]
CueStep(st, cue, isActive) ==
    IF isActive /\ cue.id \notin st.activeCues
    THEN [activeCues |-> st.activeCues \cup {cue.id},
          events |-> Append(st.events, Event("cue:start", cue.id))]
    ELSE IF ~isActive /\ cue.id \in st.activeCues
    THEN [activeCues |-> st.activeCues \ {cue.id},
          events |-> Append(st.events, Event("cue:end", cue.id))]
    ELSE st
RECURSIVE CueLoop(_, _, _, _)
CueLoop(cues, i, st, timeSec) ==
    IF i > Len(cues) THEN st
    ELSE CueLoop(cues, i + 1,
                 CueStep(st, cues[i],
                         timeSec >= cues[i].start
                         /\ (~IsSome(cues[i].end) \/ timeSec < Val(cues[i].end))),
                 timeSec)
EndThenStart(lastActiveSceneId, activeSceneId) ==
    IF activeSceneId = lastActiveSceneId THEN <<>>
    ELSE (IF Truthy(activeSceneId)
          THEN <<Event("scene:start", Val(activeSceneId))>> ELSE <<>>)
         \o (IF Truthy(lastActiveSceneId)
             THEN <<Event("scene:end", Val(lastActiveSceneId))>> ELSE <<>>)
\* The scene events of the tick
SceneEvents(lastActiveSceneId, activeSceneId) ==
    IF activeSceneId = lastActiveSceneId THEN <<>>
    ELSE (IF Truthy(lastActiveSceneId)
          THEN <<Event("scene:end", Val(lastActiveSceneId))>> ELSE <<>>)
         \o (IF Truthy(activeSceneId)
             THEN <<Event("scene:start", Val(activeSceneId))>> ELSE <<>>)

\* The listener after the first n of the events: the scene it holds open
RECURSIVE OpenAfter(_, _, _)
OpenAfter(open, events, n) ==
    IF n = 0 THEN open
    ELSE IF events[n].name = "scene:start" THEN Some(events[n].id)
    ELSE IF events[n].name = "scene:end" THEN None
    ELSE OpenAfter(open, events, n - 1)

HandleDone(pl, timeSec, active, activeSceneId, cueSt) ==
    [pl EXCEPT !.seen = Some([time |-> timeSec, frame |-> FrameOf(timeSec, pl.fps)]),
               !.activeScenes = active,
               !.hidden = (@ \ TimedKeys(pl, activeSceneId, TRUE, timeSec))
                          \cup TimedKeys(pl, activeSceneId, FALSE, timeSec),
               !.activeCues = cueSt.activeCues,
               !.events = cueSt.events
                          \o SceneEvents(pl.lastActiveSceneId, activeSceneId),
               !.openScene = OpenAfter(@, SceneEvents(pl.lastActiveSceneId, activeSceneId),
                                       Len(SceneEvents(pl.lastActiveSceneId, activeSceneId))),
               !.lastActiveSceneId = activeSceneId,
               !.records = TRUE]
HandleActive(pl, timeSec, active) ==
    HandleDone(pl, timeSec, active, ActiveSceneId(pl.scenes, active),
               CueLoop(pl.cues, 1,
                       [activeCues |-> pl.activeCues,
                        events |-> <<Event("timeline:tick", "")>>], timeSec))
\* handleTick(timeSec) of player pl: the time and the frame it publishes
\* (--video-time, --video-frame, the timeline:tick event), the scenes it marks
\* active, the timed elements it hides, and the events it dispatches, in order
handleTick(pl, timeSec) == HandleActive(pl, timeSec, ActiveScenes(pl.scenes, timeSec))

AlwaysNewTimeline(g, t, clockMode, loop) ==
    createTimeline(g, t.fps, clockMode, loop, t.duration)
ReconfiguredTimeline(g, t, clockMode, loop) ==
    IF IsSome(timelines[g])
    THEN [Val(timelines[g]) EXCEPT !.fps = t.fps, !.clockMode = clockMode,
                                   !.loop = loop, !.duration = t.duration]
    ELSE createTimeline(g, t.fps, clockMode, loop, t.duration)
\* `timelines.get(timelineId)`, created from this mount's values when absent
TimelineFor(g, t, clockMode, loop) ==
    IF IsSome(timelines[g]) THEN Val(timelines[g])
    ELSE createTimeline(g, t.fps, clockMode, loop, t.duration)

Started(c, autoPlay) == IF autoPlay THEN start(c) ELSE c
Stopped(c, autoPlay) == IF autoPlay THEN stop(c) ELSE c

MountWith(p, g, t, autoPlay, clockMode, loop) ==
    /\ timelines' = [timelines EXCEPT ![g] =
           Some(Started(subscribe(TimelineFor(g, t, clockMode, loop), p), autoPlay))]
    /\ defaultTimeline' = IF ~IsSome(timelines[g]) /\ ~IsSome(defaultTimeline)
                          THEN Some(g) ELSE defaultTimeline
    /\ players' = [players EXCEPT ![p] =
           [Unmounted EXCEPT !.mounted = TRUE, !.group = g, !.fps = t.fps,
                             !.autoPlay = autoPlay, !.scenes = t.scenes,
                             !.cues = t.cues, !.timed = t.timed]]
    /\ UNCHANGED <<now, rvars, xvars>>

RegisteredThenFailed(p, g, message) ==
    /\ players' = [players EXCEPT ![p] = [Unmounted EXCEPT !.error = Some(message)]]
    /\ timelines' = [timelines EXCEPT ![g] =
           IF IsSome(@) THEN @
           ELSE Some(createTimeline(g, DefaultFps, "live", FALSE, None))]
    /\ UNCHANGED <<now, defaultTimeline, rvars, xvars>>
\* A mount of p on group g that ends with the error `message`, reported through
\* onError or thrown by executeVomXml: the call is left before `timelines.get`
MountFailed(p, g, message) ==
    /\ players' = [players EXCEPT ![p] = [Unmounted EXCEPT !.error = Some(message)]]
    /\ UNCHANGED <<now, timelines, defaultTimeline, rvars, xvars>>

\* mountVmlPlayer(container, {xml, autoPlay, clockMode, loop, syncGroup}); when
\* executeVomXml throws, the call ends before it reaches the registry
Mount(p, root, autoPlay, clockMode, loop, g) ==
    /\ ~players[p].mounted
    /\ IF executeVomXml(root).result = "ok"
       THEN MountWith(p, g, computeSceneTimings(root), autoPlay, clockMode, loop)
       ELSE MountFailed(p, g, executeVomXml(root).result)

\* mountVmlPlayer on a whole markup text: the root is looked for first, then
\* computeSceneTimings runs executeVomXml on the text
MountPage(p, page, autoPlay, clockMode, loop, g) ==
    /\ ~players[p].mounted
    /\ IF page.tag \notin allowedRoots THEN MountFailed(p, g, "root")
       ELSE IF loadVideoFileFromXml(page) /= "ok"
       THEN MountFailed(p, g, loadVideoFileFromXml(page))
       ELSE MountWith(p, g, computeSceneTimings(page.body), autoPlay, clockMode, loop)

\* The clock player p is subscribed to
Clock0(p) == Val(timelines[players[p].group])
\* The cleanup function mountVmlPlayer returned
Cleanup(p) ==
    /\ players[p].mounted
    /\ timelines' = [timelines EXCEPT ![players[p].group] =
           Some(Stopped(unsubscribe(Val(@), p), players[p].autoPlay))]
    /\ players' = [players EXCEPT ![p] = Unmounted]
    /\ UNCHANGED <<now, defaultTimeline, rvars, xvars>>

\* timeline.start() and timeline.stop() called by the page on a registered clock
Start(g) ==
    /\ IsSome(timelines[g])
    /\ timelines' = [timelines EXCEPT ![g] = Some(start(Val(@)))]
    /\ UNCHANGED <<now, defaultTimeline, players, rvars, xvars>>
Stop(g) ==
    /\ IsSome(timelines[g])
    /\ timelines' = [timelines EXCEPT ![g] = Some(stop(Val(@)))]
    /\ UNCHANGED <<now, defaultTimeline, players, rvars, xvars>>

\* The clock of group g runs its tick callback in the frame at ts
Ticks(g) == IsSome(timelines[g]) /\ Val(timelines[g]).raf
Notified(p) ==
    /\ Ticks(players[p].group)
    /\ Val(timelines[players[p].group]).running
    /\ p \in SubSet(Val(timelines[players[p].group]))

\* tick(ts) when the handler of subscriber `stopper` calls timeline.stop() while
\* subs.forEach delivers the tick ("none": no handler does): every subscriber is
\* still called, and the `if (running)` after the loop requests no frame
StopsInTick(c, stopper) == c.raf /\ c.running /\ stopper \in SubSet(c)
TickDelivered(c, ts, stopper) ==
    IF StopsInTick(c, stopper) THEN stop(tick(c, ts)) ELSE tick(c, ts)

\* One animation frame at timestamp now + d: every waiting tick callback runs,
\* each calling the subscribers of its clock with the clock's new time
Frame(d, stopper) ==
    /\ now' = now + d
    /\ timelines' = [g \in Groups |->
           IF Ticks(g) THEN Some(TickDelivered(Val(timelines[g]), now + d, stopper))
           ELSE timelines[g]]
    /\ players' = [p \in Players |->
           IF Notified(p)
           THEN handleTick(players[p],
                           tick(Val(timelines[players[p].group]), now + d).time)
           ELSE players[p]]
    /\ UNCHANGED <<defaultTimeline, rvars, xvars>>
AnimationFrame(d, stopper) == now + d <= MaxTs /\ Frame(d, stopper)

PNext ==
    \/ \E p \in Players, autoPlay \in BOOLEAN, o \in ClockOptions, g \in Groups :
          \E root \in XmlsOf(p) : Mount(p, root, autoPlay, o[1], o[2], g)
    \/ \E p \in Players : Cleanup(p)
    \/ \E g \in Groups : Start(g)
    \/ \E g \in Groups : Stop(g)
    \/ \E d \in FrameDeltas, stopper \in Players \cup {"none"} : AnimationFrame(d, stopper)

\* The resolver alone: no player is mounted
ResolverInit == RInit /\ PInit /\ XIdle
SpecResolver == ResolverInit /\ [][RNext]_vars
\* The resolver run to its end on compositions whose third scene has a time of
\* its own, and on a scene without id and one with malformed styles.  The loop
\* is synchronous code: a call that was entered runs on until it returns or
\* throws
LoopCompositions ==
    {root \in Compositions :
        /\ root.scenes[3].start = None /\ root.scenes[3].duration = Sec(MaxLiteral)
        /\ root.scenes[2].duration /= Sec(1)
        /\ root.scenes[2].children = <<>>}
    \cup {[fps |-> None, scenes |-> <<Leaf("scene", "", None, None, Sec(1))>>],
          [fps |-> None,
           scenes |-> <<[Leaf("scene", "a", Some(Ref("sceneStart", "b", 0)), None, Sec(1))
                            EXCEPT !.styles = Some("{")],
                        Leaf("scene", "b", Sec(1), None, Sec(1))>>]}
LoopInit == (\E root \in LoopCompositions : RStart(root)) /\ PInit /\ XIdle
SpecLoop ==
    LoopInit /\ [][RNext]_vars
    /\ WF_vars(WhileHead) /\ WF_vars(TryScene) /\ WF_vars(PassEnd)

\* The players and their clocks: the resolver is only run inside Mount
IdleXml == [fps |-> None, scenes |-> <<Leaf("scene", "a", None, None, None)>>]
PlayerInit == RStart(IdleXml) /\ PInit /\ XIdle
SpecPlayer == PlayerInit /\ [][PNext]_vars

\* ------------------------------------------------------------------------
\* One player over documents of several scenes with timed children
\* ------------------------------------------------------------------------
SceneMaxTs == 3600

Title(s, e, d) == Leaf("title", "", s, e, d)
\* a then b, each one second
Adjacent ==
    [fps |-> None, scenes |-> <<Leaf("scene", "a", None, None, Sec(1)),
                               Leaf("scene", "b", None, None, Sec(1))>>]
\* a for one second, nothing for one second, then b
Apart ==
    [fps |-> None, scenes |-> <<Leaf("scene", "a", None, None, Sec(1)),
                               Leaf("scene", "b", Sec(2), None, Sec(1))>>]
\* b starts while a is still on
Overlapping ==
    [fps |-> None, scenes |-> <<Leaf("scene", "a", None, None, Sec(2)),
                               Leaf("scene", "b", Sec(1), None, Sec(2))>>]
\* a holds an element with start=1 end=2 and one with start=2 duration=1
TimedChildren ==
    [fps |-> None,
     scenes |-> <<El("scene", "a", None, None, None,
                     <<Title(Sec(1), Sec(2), None), Title(Sec(2), None, Sec(1))>>),
                  Leaf("scene", "b", None, None, Sec(1))>>]
\* a holds a sequence of two elements of one second each
SequenceInScene ==
    [fps |-> None,
     scenes |-> <<El("scene", "a", None, None, None,
                     <<El("sequence", "", None, None, None,
                          <<Title(None, None, Sec(1)), Title(None, None, Sec(1))>>)>>),
                  Leaf("scene", "b", None, None, Sec(1))>>]
\* a has no end and no duration of its own; b starts at one second
OpenEnded ==
    [fps |-> None, scenes |-> <<Leaf("scene", "a", None, None, None),
                               Leaf("scene", "b", Sec(1), None, Sec(1))>>]
Cue(id, s, d) == Leaf("cue", id, s, None, d)
\* a holds a cue of one second and a cue without end
CuesInScene ==
    [fps |-> None,
     scenes |-> <<El("scene", "a", None, None, Sec(2),
                     <<Cue("c1", Sec(0), Sec(1)), Cue("c2", Sec(1), None)>>),
                  Leaf("scene", "b", None, None, Sec(1))>>]
\* a holds a cue c1 and a layer with a cue of the same id, which the resolver
\* skips with the layer's other non-component children
CueInLayer ==
    [fps |-> None,
     scenes |-> <<El("scene", "a", None, None, Sec(2),
                     <<Cue("c1", Sec(0), Sec(1)),
                       El("layer", "l", None, None, None, <<Cue("c1", Sec(1), Sec(1))>>)>>)>>]
SceneXmls ==
    {Adjacent, Apart, Overlapping, TimedChildren, SequenceInScene, OpenEnded,
     CuesInScene, CueInLayer}

SceneMount ==
    \E root \in SceneXmls, autoPlay \in BOOLEAN, o \in ClockOptions :
        Mount("p1", root, autoPlay, o[1], o[2], "g1")
SceneFrame(d) == now + d <= SceneMaxTs /\ Frame(d, "none")
SceneNext ==
    \/ SceneMount
    \/ Cleanup("p1")
    \/ Start("g1")
    \/ Stop("g1")
    \/ \E d \in FrameDeltas : SceneFrame(d)
SceneInit == RStart(IdleXml) /\ PInit /\ XIdle
SpecScenes == SceneInit /\ [][SceneNext]_vars

\* ------------------------------------------------------------------------
\* Two players mounted with markup that is well formed or broken
\* ------------------------------------------------------------------------
Styled(el, raw) == [el EXCEPT !.styles = Some(raw)]
WellFormed(body) == Page("vml", "v", None, None, body)
\* a starts where b starts, b is written after a: resolved in the second pass
ForwardRef ==
    [fps |-> None,
     scenes |-> <<Leaf("scene", "a", Some(Ref("sceneStart", "b", 0)), None, Sec(1)),
                  Leaf("scene", "b", Sec(1), None, Sec(1))>>]
TwoCues(first, second) ==
    [fps |-> None,
     scenes |-> <<El("scene", "a", None, None, Sec(1),
                     <<Leaf("cue", first, Sec(0), None, None),
                       Leaf("cue", second, Sec(0), None, None)>>)>>]
GoodPages ==
    {WellFormed(OneScene(None, Sec(1))), WellFormed(ForwardRef),
     WellFormed(TwoCues("c1", "c2")),
     WellFormed([fps |-> None,
                 scenes |-> <<Styled(Leaf("scene", "a", None, None, Sec(1)), "{}")>>]),
     Page("video-ml", "v", Sec(1), Sec(1), OneScene(None, Sec(1)))}
BrokenPages ==
    {Page("div", "v", None, None, OneScene(None, Sec(1))),
     Page("vml", "", None, None, OneScene(None, Sec(1))),
     WellFormed([fps |-> None, scenes |-> <<Leaf("scene", "", None, None, Sec(1))>>]),
     WellFormed(TwoCues("c1", "c1")),
     WellFormed(TwoCues("c1", "")),
     WellFormed([fps |-> None,
                 scenes |-> <<Styled(Leaf("scene", "a", None, None, Sec(1)), "{")>>]),
     WellFormed(TwoWaiting),
     WellFormed([fps |-> None, scenes |-> <<>>]),
     Page("vml", "v", Some(Ref("sceneEnd", "a", 0)), None, OneScene(None, Sec(1))),
     Page("vml", "v", None, Some(Ref("sceneStart", "a", 0)), OneScene(None, Sec(1)))}
Pages == GoodPages \cup BrokenPages

\* The first player is mounted with any of the pages, the second with a page
\* that is well formed
PageMount ==
    \/ \E page \in Pages, autoPlay \in BOOLEAN :
          MountPage("p1", page, autoPlay, "live", FALSE, "g1")
    \/ \E autoPlay \in BOOLEAN :
          MountPage("p2", WellFormed(OneScene(None, Sec(1))), autoPlay, "live", FALSE, "g1")
MountNext ==
    \/ PageMount
    \/ \E p \in Players : Cleanup(p)
    \/ Start("g1")
    \/ Stop("g1")
    \/ \E d \in FrameDeltas : AnimationFrame(d, "none")
MountInit == RStart(IdleXml) /\ PInit /\ XIdle
SpecMount == MountInit /\ [][MountNext]_vars

\* ------------------------------------------------------------------------
\* xml: applyVomPatchesInBrowser, the patch loop over a parsed document
\* ------------------------------------------------------------------------
MaxPatches == 3

\* An element is addressed by its path: the positions to follow from the root
Front(path) == SubSeq(path, 1, Len(path) - 1)
RECURSIVE NodeAt(_, _)
NodeAt(tree, path) ==
    IF path = <<>> THEN tree ELSE NodeAt(tree.children[Head(path)], Tail(path))
RECURSIVE ReplaceAt(_, _, _)
ReplaceAt(tree, path, new) ==
    IF path = <<>> THEN new
    ELSE [tree EXCEPT !.children =
             [@ EXCEPT ![Head(path)] = ReplaceAt(@, Tail(path), new)]]

\* findById: the first element in document order that carries the id
RECURSIVE findById(_, _, _)
RECURSIVE FindAmong(_, _, _, _)
FindAmong(children, i, id, path) ==
    IF i > Len(children) THEN None
    ELSE IF IsSome(findById(children[i], id, Append(path, i)))
    THEN findById(children[i], id, Append(path, i))
    ELSE FindAmong(children, i + 1, id, path)
findById(tree, id, path) ==
    IF tree.id = id THEN Some(path) ELSE FindAmong(tree.children, 1, id, path)

\* findSceneAncestor: the nearest scene on the way from the node up to the root
RECURSIVE findSceneAncestor(_, _)
findSceneAncestor(tree, path) ==
    IF NodeAt(tree, path).tag = "scene" THEN Some(path)
    ELSE IF path = <<>> THEN None
    ELSE findSceneAncestor(tree, Front(path))

\* `scene.getAttribute("sealed") ?? scene.getAttribute("data-sealed")` is "true"
SealedMark(n) ==
    (IF IsSome(n.attrs["sealed"]) THEN n.attrs["sealed"] ELSE n.attrs["data-sealed"])
    = Some("true")
\* assertNotSealed(node) throws
SealedAt(tree, scenePath) == IsSome(scenePath) /\ SealedMark(NodeAt(tree, Val(scenePath)))
ThrowsSealed(tree, path, enforce) ==
    enforce /\ SealedAt(tree, findSceneAncestor(tree, path))

\* parent.appendChild(n), or insertBefore(n, children[index]) for an index inside
InsertChild(children, index, n) ==
    IF ~IsSome(index) \/ Val(index) >= Len(children) THEN Append(children, n)
    ELSE SubSeq(children, 1, Val(index)) \o <<n>>
         \o SubSeq(children, Val(index) + 1, Len(children))
RemoveChild(children, k) ==
    SubSeq(children, 1, k - 1) \o SubSeq(children, k + 1, Len(children))

\* What one patch does: the document after it and the error it throws ("" none)
Applied(tree) == [doc |-> tree, error |-> ""]
Thrown(tree, error) == [doc |-> tree, error |-> error]
Guarded(tree, found, enforce, after) ==
    IF ~IsSome(found) THEN Thrown(tree, "not found")
    ELSE IF ThrowsSealed(tree, Val(found), enforce) THEN Thrown(tree, "sealed")
    ELSE Applied(after)

AppendNodeAt(tree, patch, enforce, found) ==
    Guarded(tree, found, enforce,
            IF IsSome(found)
            THEN ReplaceAt(tree, Val(found),
                           [NodeAt(tree, Val(found)) EXCEPT !.children =
                               InsertChild(@, patch.index, patch.node)])
            ELSE tree)
\* The root's parentNode is the document; the batches here leave the root in place
RemoveNodeAt(tree, patch, enforce, found) ==
    Guarded(tree, found, enforce,
            IF IsSome(found) /\ Val(found) /= <<>>
            THEN ReplaceAt(tree, Front(Val(found)),
                           [NodeAt(tree, Front(Val(found))) EXCEPT !.children =
                               RemoveChild(@, Val(found)[Len(Val(found))])])
            ELSE tree)
SetAttrAt(tree, patch, enforce, found) ==
    Guarded(tree, found, enforce,
            IF IsSome(found)
            THEN ReplaceAt(tree, Val(found),
                           [NodeAt(tree, Val(found)) EXCEPT !.attrs[patch.name] = patch.value])
            ELSE tree)
SetTextAt(tree, patch, enforce, found) ==
    Guarded(tree, found, enforce,
            IF IsSome(found)
            THEN ReplaceAt(tree, Val(found),
                           [NodeAt(tree, Val(found)) EXCEPT !.children = <<>>,
                                                            !.text = patch.textContent])
            ELSE tree)
ReplaceSubtreeAt(tree, patch, enforce, found) ==
    Guarded(tree, found, enforce,
            IF IsSome(found) THEN ReplaceAt(tree, Val(found), patch.node) ELSE tree)
SealSceneAt(tree, patch, found) ==
    IF ~IsSome(found) \/ NodeAt(tree, OrElse(found, <<>>)).tag /= "scene"
    THEN Thrown(tree, "not found")
    ELSE Applied(ReplaceAt(tree, Val(found),
                           [NodeAt(tree, Val(found)) EXCEPT !.attrs["sealed"] = Some("true")]))

\* The id a patch addresses
TargetId(patch) ==
    IF patch.op = "appendNode" THEN patch.parentId
    ELSE IF patch.op = "sealScene" THEN patch.sceneId ELSE patch.nodeId
\* One turn of `for (const patch of patches) switch (patch.op)`
applyPatch(tree, patch, enforce) ==
    IF patch.op = "appendNode"
    THEN AppendNodeAt(tree, patch, enforce, findById(tree, patch.parentId, <<>>))
    ELSE IF patch.op = "removeNode"
    THEN RemoveNodeAt(tree, patch, enforce, findById(tree, patch.nodeId, <<>>))
    ELSE IF patch.op = "setAttr"
    THEN SetAttrAt(tree, patch, enforce, findById(tree, patch.nodeId, <<>>))
    ELSE IF patch.op = "setText"
    THEN SetTextAt(tree, patch, enforce, findById(tree, patch.nodeId, <<>>))
    ELSE IF patch.op = "replaceSubtree"
    THEN ReplaceSubtreeAt(tree, patch, enforce, findById(tree, patch.nodeId, <<>>))
    ELSE SealSceneAt(tree, patch, findById(tree, patch.sceneId, <<>>))

\* ---- the documents and the batches ----
NewLeaf == Node("title", "n", Attrs(None, None), <<>>)
\* <vml id=v><scene id=s ...><(layer|scene) id=i><title id=t/></..></scene>
\* <title id=o/></vml>, the scene s with the given sealed and data-sealed
PatchDoc(sealed, dataSealed, innerTag) ==
    Node("vml", "v", Attrs(None, None),
         <<Node("scene", "s", Attrs(sealed, dataSealed),
                <<Node(innerTag, "i", Attrs(None, None),
                       <<Node("title", "t", Attrs(None, None), <<>>)>>)>>),
           Node("title", "o", Attrs(None, None), <<>>)>>)
PatchDocs ==
    {PatchDoc(m[1], m[2], tag) :
        m \in {<<None, None>>, <<Some("true"), None>>, <<None, Some("true")>>,
               <<Some("false"), Some("true")>>},
        tag \in {"layer", "scene"}}
PatchInputs ==
    {[op |-> "appendNode", parentId |-> "i", node |-> NewLeaf, index |-> None],
     [op |-> "appendNode", parentId |-> "v", node |-> NewLeaf, index |-> Some(0)],
     [op |-> "removeNode", nodeId |-> "t"],
     [op |-> "removeNode", nodeId |-> "zz"],
     [op |-> "setAttr", nodeId |-> "t", name |-> "x", value |-> Some("1")],
     [op |-> "setAttr", nodeId |-> "s", name |-> "sealed", value |-> None],
     [op |-> "setText", nodeId |-> "t", textContent |-> "hi"],
     [op |-> "setText", nodeId |-> "o", textContent |-> "hi"],
     [op |-> "setText", nodeId |-> "v", textContent |-> "hi"],
     [op |-> "replaceSubtree", nodeId |-> "i", node |-> NewLeaf],
     [op |-> "replaceSubtree", nodeId |-> "o", node |-> NewLeaf],
     [op |-> "sealScene", sceneId |-> "s"],
     [op |-> "sealScene", sceneId |-> "o"]}
Batches == UNION {[1..n -> PatchInputs] : n \in 0..MaxPatches}

\* applyVomPatchesInBrowser(xml, patches, enforceSealed) has parsed xml
PatchStart ==
    /\ patchXml \in PatchDocs
    /\ doc = patchXml
    /\ patches \in Batches
    /\ patchIndex = 1
    /\ enforceSealed \in BOOLEAN
    /\ patched = ""

InLoop(op) ==
    patched = "" /\ patchIndex <= Len(patches) /\ patches[patchIndex].op = op
\* The turn of the loop for the patch at patchIndex: it changes the document and
\* goes on to the next patch, or throws and the call is over
PatchTurn(r) ==
    /\ doc' = r.doc
    /\ patched' = r.error
    /\ patchIndex' = IF r.error = "" THEN patchIndex + 1 ELSE patchIndex
    /\ UNCHANGED <<patchXml, patches, enforceSealed, nonpatchvars>>
AppendNode == InLoop("appendNode") /\ PatchTurn(applyPatch(doc, patches[patchIndex], enforceSealed))
RemoveNode == InLoop("removeNode") /\ PatchTurn(applyPatch(doc, patches[patchIndex], enforceSealed))
SetAttr == InLoop("setAttr") /\ PatchTurn(applyPatch(doc, patches[patchIndex], enforceSealed))
SetText == InLoop("setText") /\ PatchTurn(applyPatch(doc, patches[patchIndex], enforceSealed))
ReplaceSubtree ==
    InLoop("replaceSubtree") /\ PatchTurn(applyPatch(doc, patches[patchIndex], enforceSealed))
SealScene == InLoop("sealScene") /\ PatchTurn(applyPatch(doc, patches[patchIndex], enforceSealed))
\* `return serializer.serializeToString(doc)`
Serialize ==
    /\ patched = "" /\ patchIndex > Len(patches)
    /\ patched' = "ok"
    /\ UNCHANGED <<patchXml, doc, patches, patchIndex, enforceSealed, nonpatchvars>>

PatchNext ==
    AppendNode \/ RemoveNode \/ SetAttr \/ SetText \/ ReplaceSubtree \/ SealScene
    \/ Serialize
PatchInit ==
    RStart(IdleXml) /\ PInit /\ PatchStart /\ ElementIdle /\ TimingIdle /\ TickerIdle
SpecPatch == PatchInit /\ [][PatchNext]_vars

\* ------------------------------------------------------------------------
\* The vml-player element: its callbacks and its renders
\* ------------------------------------------------------------------------
MaxRenders == 3
RenderIds == 1..MaxRenders

\* dropped: the render began before the element was last disconnected
NoRender == [phase |-> "none", cancelled |-> FALSE, dropped |-> FALSE]
\* The element before it is first connected, with or without a src attribute
ElementStart ==
    /\ container = FALSE /\ connected = FALSE
    /\ src \in BOOLEAN
    /\ cleanup = None /\ abort = None /\ aborted = {}
    /\ renders = [r \in RenderIds |-> NoRender]
    /\ live = {} /\ errors = {}

AsSet(o) == IF IsSome(o) THEN {Val(o)} ELSE {}
\* The render awaits its fetch or the text of the response
Pending(r) == renders[r].phase \in {"fetch", "text"}
\* A continuation is queued as a microtask: an inline render after its await, or
\* a render whose fetch was rejected by abort()
Queued(r) == renders[r].phase = "inline" \/ (Pending(r) /\ r \in aborted)
MicrotaskPending == \E r \in RenderIds : Queued(r)
Begun == {r \in RenderIds : renders[r].phase /= "none"}

\* renders after render r began in the given phase; a render whose fetch is in
\* flight at that moment is superseded
Superseding(r, phase) ==
    [q \in RenderIds |->
        IF q = r THEN [phase |-> phase, cancelled |-> FALSE, dropped |-> FALSE]
        ELSE [renders[q] EXCEPT !.cancelled = @ \/ Pending(q)]]
\* renderPlayer() up to its await, as render r: the cleanup slot is called and
\* emptied, and resolveXml either starts a fetch under a new AbortController,
\* after aborting the previous one, or reads the inline markup
RenderAs(r, hasSrc) ==
    /\ live' = live \ AsSet(cleanup)
    /\ cleanup' = None
    /\ aborted' = IF hasSrc THEN aborted \cup AsSet(abort) ELSE aborted
    /\ abort' = IF hasSrc THEN Some(r) ELSE abort
    /\ renders' = Superseding(r, IF hasSrc THEN "fetch" ELSE "inline")
    /\ UNCHANGED errors
renderPlayer(hasSrc) ==
    /\ Cardinality(Begun) < MaxRenders
    /\ RenderAs(Cardinality(Begun) + 1, hasSrc)

ConnectedCallback ==
    /\ ~connected
    /\ connected' = TRUE
    /\ container' = TRUE
    /\ renderPlayer(src)
    /\ UNCHANGED <<src, nonelvars>>
DisconnectedCallback ==
    /\ connected
    /\ connected' = FALSE
    /\ aborted' = aborted \cup AsSet(abort)
    /\ live' = live \ AsSet(cleanup)
    /\ cleanup' = None
    /\ renders' = [q \in RenderIds |-> [renders[q] EXCEPT !.cancelled = @ \/ Pending(q),
                                                            !.dropped = @ \/ q \in Begun]]
    /\ UNCHANGED <<container, src, abort, errors, nonelvars>>
\* An observed attribute was set: src was given, removed, or left as it was
AttributeChangedCallback(hasSrc) ==
    /\ src' = hasSrc
    /\ IF container THEN renderPlayer(hasSrc)
       ELSE UNCHANGED <<cleanup, abort, aborted, renders, live, errors>>
    /\ UNCHANGED <<container, connected, nonelvars>>

\* What renderPlayer does after its await
Mounted(r) ==
    /\ cleanup' = Some(r)
    /\ live' = live \cup {r}
    /\ UNCHANGED errors
VmlError(r) ==
    /\ errors' = errors \cup {r}
    /\ UNCHANGED <<cleanup, live>>
Ends(r) ==
    /\ renders' = [renders EXCEPT ![r].phase = "done"]
    /\ UNCHANGED <<container, connected, src, abort, aborted, nonelvars>>

\* The continuation of an inline render: the oldest queued one runs first
InlineContinues(r, found) ==
    /\ renders[r].phase = "inline"
    /\ \A q \in RenderIds : renders[q].phase = "inline" => r <= q
    /\ IF found THEN Mounted(r) ELSE VmlError(r)
    /\ Ends(r)
\* fetch() settles: a response that is ok, or one that is not, or a failure
FetchResponds(r, ok) ==
    /\ renders[r].phase = "fetch" /\ r \notin aborted /\ ~MicrotaskPending
    /\ IF ok
       THEN /\ renders' = [renders EXCEPT ![r].phase = "text"]
            /\ UNCHANGED <<container, connected, src, abort, aborted, nonelvars,
                           cleanup, live, errors>>
       ELSE VmlError(r) /\ Ends(r)
\* The fetch or the body read of an aborted controller rejects with AbortError,
\* which renderPlayer catches like any other error
FetchAborted(r) ==
    /\ Pending(r) /\ r \in aborted
    /\ VmlError(r)
    /\ Ends(r)
\* res.text() arrives, with markup or empty
TextArrives(r, found) ==
    /\ renders[r].phase = "text" /\ r \notin aborted /\ ~MicrotaskPending
    /\ IF found THEN Mounted(r) ELSE VmlError(r)
    /\ Ends(r)

ElementNext ==
    \/ ConnectedCallback
    \/ DisconnectedCallback
    \/ \E hasSrc \in BOOLEAN : AttributeChangedCallback(hasSrc)
    \/ \E r \in RenderIds, found \in BOOLEAN : InlineContinues(r, found)
    \/ \E r \in RenderIds, ok \in BOOLEAN : FetchResponds(r, ok)
    \/ \E r \in RenderIds : FetchAborted(r)
    \/ \E r \in RenderIds, found \in BOOLEAN : TextArrives(r, found)
ElementInit ==
    RStart(IdleXml) /\ PInit /\ PatchIdle /\ ElementStart /\ TimingIdle /\ TickerIdle
SpecElement == ElementInit /\ [][ElementNext]_vars

\* ------------------------------------------------------------------------
\* Timings: what the resolver and the scheduler compute for one document
\* ------------------------------------------------------------------------
\* The scene a of a document, declared to start at 0, lasts v in the given unit
UnitDoc(fps, v, unit) ==
    [fps |-> fps, scenes |-> <<Leaf("scene", "a", Sec(0), None, Some(Num(v, unit)))>>]
UnitDocs ==
    {UnitDoc(fps, v, unit) :
        fps \in {None, Some(<<"2", "5">>)}, v \in {2, 24, 500},
        unit \in {"", "s", "ms", "f"}}
\* The children a container is filled with: <<start, end, duration>>
ChildTimings ==
    {<<None, None, Sec(2)>>, <<None, None, None>>, <<Sec(1), None, Sec(1)>>,
     <<Sec(0), None, Sec(3)>>, <<None, None, Some(Num(500, "ms"))>>}
\* The scene a holds one sequence or stack, which starts at the scene's start or
\* one second later and holds two or three children
ContainerDoc(tag, cstart, kids) ==
    [fps |-> None,
     scenes |-> <<El("scene", "a", None, None, None,
                     <<El(tag, "", cstart, None, None,
                          [k \in DOMAIN kids |-> Title(kids[k][1], kids[k][2], kids[k][3])])>>)>>]
ContainerDocs ==
    {ContainerDoc(tag, cstart, kids) :
        tag \in {"sequence", "stack"}, cstart \in {None, Sec(1)},
        kids \in [1..2 -> ChildTimings] \cup [1..3 -> ChildTimings]}
\* Documents whose times are written over other scenes: ForwardRef, and a scene
\* b holding a cue that starts where scene a ends or at a literal
CueAt(cueStart) ==
    [fps |-> None,
     scenes |-> <<Leaf("scene", "a", Sec(0), None, Sec(1)),
                  El("scene", "b", Sec(1), None, Sec(2),
                     <<Leaf("cue", "c1", cueStart, None, Sec(1))>>)>>]
ReferenceDocs ==
    {ForwardRef, Apart, CueAt(Some(Ref("sceneEnd", "a", 0))), CueAt(Sec(0)), CueAt(Sec(1))}
TimingDocs == UnitDocs \cup ContainerDocs \cup ReferenceDocs

\* The resolver's run on a document: its loop state when the loop is left
resolve(root) ==
    WhileLoop(root, [R |-> FreshR(root), pending |-> 1..Len(root.scenes),
                     progressed |-> FALSE, passes |-> 0, result |-> ""])
\* parseContainerChildren's result for the container that is the first child of
\* the first scene, none when the scene has no such child
FirstContainer(root) ==
    IF Len(root.scenes[1].children) > 0 /\ IsContainer(root.scenes[1].children[1])
    THEN Some(TopContainer(root.scenes[1].children[1],
                           SceneCtx(root, 1, FreshR(root)), 0))
    ELSE None
\* elementDuration of that container
FirstDuration(root, fps) ==
    IF Len(root.scenes[1].children) > 0 /\ IsContainer(root.scenes[1].children[1])
    THEN elementDuration(root.scenes[1].children[1], fps)
    ELSE None

TimingStart0 ==
    /\ timingXml \in TimingDocs
    /\ compiled = None
    /\ scheduled = None
\* executeVomXml(xml): the scenes of the composition it returns, and what
\* parseContainerChildren returned for the scene's container
ExecuteVomXml ==
    /\ compiled = None
    /\ compiled' = Some([result |-> resolve(timingXml).result,
                         scenes |-> resolve(timingXml).R.scenes,
                         container |-> FirstContainer(timingXml)])
    /\ UNCHANGED <<timingXml, scheduled, nontimingvars>>
\* computeSceneTimings and computeTimedElements as mountVmlPlayer calls them,
\* and what elementDuration returned for the scene's container
ComputeSceneTimings ==
    /\ scheduled = None
    /\ executeVomXml(timingXml).result = "ok"
    /\ scheduled' = Some([timing |-> computeSceneTimings(timingXml),
                          containerDuration |->
                              FirstDuration(timingXml, executeVomXml(timingXml).fps)])
    /\ UNCHANGED <<timingXml, compiled, nontimingvars>>

TimingNext == ExecuteVomXml \/ ComputeSceneTimings
TimingInit ==
    RStart(IdleXml) /\ PInit /\ PatchIdle /\ ElementIdle /\ TimingStart0 /\ TickerIdle
SpecTiming == TimingInit /\ [][TimingNext]_vars

\* ------------------------------------------------------------------------
\* One clock, its requestAnimationFrame requests and its subscribers' callbacks
\* ------------------------------------------------------------------------
MaxTickTs == 2200
MaxRequests == 5

\* What the page's code does inside a subscriber's callback: nothing,
\* timeline.stop() or timeline.start()
CallbackActs == {"none", "stop", "start"}
\* The clocks followed: one second long, with two subscribers
TickerClocks ==
    {subscribe(subscribe(createTimeline("g1", DefaultFps, o[1], o[2], Some(MsPerSec)),
                         "h1"), "h2") : o \in ClockOptions}

\* requestAnimationFrame(tick), its id kept in `raf`
Request(t) ==
    [t EXCEPT !.requests = @ \cup {t.nextId}, !.rafId = Some(t.nextId),
              !.nextId = @ + 1]
\* `if (raf != null) cancelAnimationFrame(raf); raf = null`
Cancel(t) ==
    [t EXCEPT !.requests = @ \ {OrElse(t.rafId, 0)}, !.due = @ \ {OrElse(t.rafId, 0)},
              !.rafId = None]
\* timeline.start() and timeline.stop() with the requests they make and cancel
TickerStarted(t) ==
    IF t.c.running THEN t ELSE Request([t EXCEPT !.c = start(t.c)])
TickerStopped(t) == [Cancel(t) EXCEPT !.c = stop(t.c)]
InCallback(t, act) ==
    IF act = "start" THEN TickerStarted(t)
    ELSE IF act = "stop" THEN TickerStopped(t) ELSE t

\* The page calls timeline.start() or timeline.stop() between two callbacks
PageStart ==
    /\ ticker.pc = "idle"
    /\ ticker.nextId <= MaxRequests
    /\ ticker' = TickerStarted(ticker)
    /\ UNCHANGED nontickvars
PageStop ==
    /\ ticker.pc = "idle"
    /\ ticker' = TickerStopped(ticker)
    /\ UNCHANGED nontickvars
\* The next animation frame begins: the callbacks requested so far are due
NextFrame(d) ==
    /\ ticker.pc = "idle"
    /\ ticker.due = {}
    /\ ticker.ts + d <= MaxTickTs
    /\ ticker' = [ticker EXCEPT !.ts = @ + d, !.due = ticker.requests]
    /\ UNCHANGED nontickvars
\* The frame runs the oldest callback that is due: tick(ts) up to subs.forEach
FirstDue(t) == CHOOSE id \in t.due : \A other \in t.due : id <= other
RunTick ==
    /\ ticker.pc = "idle"
    /\ ticker.due /= {}
    /\ ticker' =
          IF ~ticker.c.running
          THEN [ticker EXCEPT !.due = @ \ {FirstDue(ticker)},
                              !.requests = @ \ {FirstDue(ticker)}]
          ELSE [ticker EXCEPT !.due = @ \ {FirstDue(ticker)},
                              !.requests = @ \ {FirstDue(ticker)},
                              !.c = tick(ticker.c, ticker.ts),
                              !.pc = "deliver",
                              !.queue = ticker.c.subs,
                              !.from = ticker.c.time,
                              !.atTick = ticker.nextId]
    /\ UNCHANGED nontickvars
\* subs.forEach calls the next subscriber with the clock's time; act is what
\* that callback does to the clock before it returns
Deliver(act) ==
    /\ ticker.pc = "deliver"
    /\ ticker.queue /= <<>>
    /\ ticker.nextId <= MaxRequests
    /\ ticker' = InCallback([ticker EXCEPT !.queue = Tail(@)], act)
    /\ UNCHANGED nontickvars
\* After subs.forEach: `if (running) raf = requestAnimationFrame(tick)`
TickEnd ==
    /\ ticker.pc = "deliver"
    /\ ticker.queue = <<>>
    /\ ticker.nextId <= MaxRequests
    /\ ticker' = IF ticker.c.running THEN Request([ticker EXCEPT !.pc = "idle"])
                  ELSE [ticker EXCEPT !.pc = "idle"]
    /\ UNCHANGED nontickvars

TickerNext ==
    \/ PageStart
    \/ PageStop
    \/ \E d \in FrameDeltas : NextFrame(d)
    \/ RunTick
    \/ \E act \in CallbackActs : Deliver(act)
    \/ TickEnd
TickerInit ==
    /\ RStart(IdleXml) /\ PInit /\ PatchIdle /\ ElementIdle /\ TimingIdle
    /\ \E c \in TickerClocks : ticker = Ticker(c)
SpecTicker == TickerInit /\ [][TickerNext]_vars

\* ------------------------------------------------------------------------
\* Players that are cleaned up: the change observer, and a cleanup called by a
\* listener of the player's own events
\* ------------------------------------------------------------------------
MaxXmlChanges == 2
MaxEdits == 2
MaxBatch == 2

\* The page edits the DOM below the player's root: the observer gets a record
Mutate(p) ==
    /\ players[p].mounted
    /\ players[p].edits < MaxEdits
    /\ players' = [players EXCEPT ![p].records = TRUE, ![p].edits = @ + 1]
    /\ UNCHANGED <<now, timelines, defaultTimeline, rvars, xvars>>
ObserverAlwaysRequests(pl) ==
    [pl EXCEPT !.records = FALSE, !.batch = @ + 1, !.pendingSerialize = TRUE,
               !.observerRaf = TRUE, !.flushRequests = @ + 1]
\* The MutationObserver callback on the records it holds (no target of the
\* documents is under data-videoml-ignore): the flags are set and a flush is
\* requested unless one is waiting
ObserverRequests(pl) ==
    [pl EXCEPT !.records = FALSE, !.batch = @ + 1, !.pendingSerialize = TRUE,
               !.observerRaf = TRUE,
               !.flushRequests = IF pl.observerRaf THEN @ ELSE @ + 1]
ObserverCallback(p) ==
    /\ players[p].records
    /\ players[p].batch < MaxBatch
    /\ players' = [players EXCEPT ![p] = ObserverRequests(players[p])]
    /\ UNCHANGED <<now, timelines, defaultTimeline, rvars, xvars>>
\* flushObserver, the animation-frame callback: onXmlChange gets the markup
Flushed(pl) ==
    IF pl.pendingSerialize
    THEN [pl EXCEPT !.observerRaf = FALSE, !.flushRequests = @ - 1, !.batch = 0,
                    !.pendingSerialize = FALSE, !.xmlChanges = @ + 1,
                    !.lastXml = Some(pl.edits),
                    !.late = IF pl.mounted THEN @
                             ELSE Append(@, Event("onXmlChange", ""))]
    ELSE [pl EXCEPT !.observerRaf = FALSE, !.flushRequests = @ - 1, !.batch = 0]
flushObserver(p) ==
    /\ players[p].flushRequests > 0
    /\ players[p].xmlChanges < MaxXmlChanges
    /\ players' = [players EXCEPT ![p] = Flushed(players[p])]
    /\ UNCHANGED <<now, timelines, defaultTimeline, rvars, xvars>>

\* What handleTick still delivers once the listener of its k-th event has
\* returned: the events after it, then onTimeUpdate
AfterEvent(events, k) ==
    SubSeq(events, k + 1, Len(events)) \o <<Event("onTimeUpdate", "")>>
\* An animation frame in which a listener of the k-th event that p's handleTick
\* dispatches calls p's cleanup function: p is unsubscribed and its clock
\* stopped when p had started it, the subscribers after p are still called, and
\* p's handleTick runs on to its end
CleanupInTick(p, d, k) ==
    /\ now + d <= MaxTs
    /\ players[p].mounted
    /\ Notified(p)
    /\ k \in 1..Len(handleTick(players[p], tick(Clock0(p), now + d).time).events)
    /\ now' = now + d
    /\ timelines' = [timelines EXCEPT ![players[p].group] =
           Some(Stopped(unsubscribe(tick(Clock0(p), now + d), p), players[p].autoPlay))]
    /\ players' = [q \in Players |->
           IF q = p
           THEN [Unmounted EXCEPT !.late =
                    AfterEvent(handleTick(players[p], tick(Clock0(p), now + d).time).events, k)]
           ELSE IF Notified(q)
           THEN handleTick(players[q], tick(Val(timelines[players[q].group]), now + d).time)
           ELSE players[q]]
    /\ UNCHANGED <<defaultTimeline, rvars, xvars>>

CleanupMount ==
    \/ \E autoPlay \in BOOLEAN : Mount("p1", CuesInScene, autoPlay, "live", FALSE, "g1")
    \/ Mount("p2", OneScene(None, Sec(1)), FALSE, "live", FALSE, "g1")
CleanupNext ==
    \/ CleanupMount
    \/ \E p \in Players : Cleanup(p)
    \/ Start("g1")
    \/ \E d \in FrameDeltas : AnimationFrame(d, "none")
    \/ \E p \in Players : Mutate(p)
    \/ \E p \in Players : ObserverCallback(p)
    \/ \E p \in Players : flushObserver(p)
    \/ \E p \in Players, d \in FrameDeltas, k \in 1..3 : CleanupInTick(p, d, k)
CleanupInit == RStart(IdleXml) /\ PInit /\ XIdle
SpecCleanup == CleanupInit /\ [][CleanupNext]_vars

\* One player, its clock and its change observer
ObserverNext ==
    \/ \E autoPlay \in BOOLEAN :
          Mount("p1", OneScene(None, Sec(1)), autoPlay, "live", FALSE, "g1")
    \/ Cleanup("p1")
    \/ \E d \in FrameDeltas : AnimationFrame(d, "none")
    \/ Mutate("p1")
    \/ ObserverCallback("p1")
    \/ flushObserver("p1")
ObserverInit == RStart(IdleXml) /\ PInit /\ XIdle
SpecObserver == ObserverInit /\ [][ObserverNext]_vars

\* ------------------------------------------------------------------------
\* Properties of the resolver
\* ------------------------------------------------------------------------
Done == rpc = "done"

\* A resolver that keeps nothing of a failed attempt: from state R with the
\* scenes `pend` left, resolve any scene whose attempt succeeds, until none does.
\* What it cannot resolve is what no order of resolution can.
RECURSIVE IdealLeft(_, _, _)
IdealPick(root, R, pend, ok) ==
    IF ok = {} THEN pend
    ELSE IdealLeft(root, AttemptScene(root, CHOOSE i \in ok : TRUE, R).R,
                   pend \ {CHOOSE i \in ok : TRUE})
IdealLeft(root, R, pend) ==
    IdealPick(root, R, pend, {i \in pend : AttemptScene(root, i, R).err = ""})
\* The references of the composition are satisfiable and acyclic
Satisfiable(root) == IdealLeft(root, FreshR(root), 1..Len(root.scenes)) = {}

\* C1: every composition whose references are satisfiable and acyclic resolves
\* successfully, whatever the document order of the scenes and wherever in the
\* scene the reference is written.
C1_SatisfiableResolves == (Done /\ Satisfiable(xml)) => result = "ok"

\* The step about to be taken is an attempt that raises the unresolved-reference
\* signal
AttemptRaisesMissing ==
    rpc = "for" /\ queue /= <<>> /\ AttemptScene(xml, Head(queue), RState).err = "missing"
\* C2: an attempt that raises the unresolved-reference signal leaves the set of
\* seen cue ids, the cue-start index, the scene indices and the output scene list
\* exactly as they were.
C2_FailedAttemptNoTrace ==
    [][AttemptRaisesMissing =>
          /\ cueIds' = cueIds
          /\ cueStartIndex' = cueStartIndex
          /\ sceneStartIndex' = sceneStartIndex
          /\ sceneEndIndex' = sceneEndIndex
          /\ scenes' = scenes]_rvars

\* Scenes i and j form a genuine cycle: each one's start is the other's end and
\* neither has another source for it
NeedsEndOf(el, id) == IsSome(el.start) /\ Val(el.start).k = "sceneEnd" /\ Val(el.start).id = id
GenuineCycle(root, i, j) ==
    /\ NeedsEndOf(root.scenes[i], root.scenes[j].id)
    /\ NeedsEndOf(root.scenes[j], root.scenes[i].id)
Resolved(i) == IsSome(scenes[i])

\* C3: a composition with a genuine cycle between two scenes fails with the
\* 'Unresolved time references' error; the error names exactly the scenes still
\* pending, which are the two of the cycle when every other scene has resolved.
C3_CycleFails ==
    Done =>
      /\ result = "unresolved" =>
            unresolved = [k \in 1..Cardinality(pending) |->
                              xml.scenes[SortedSeq(pending)[k]].id]
      /\ \A i, j \in DOMAIN xml.scenes :
            (i < j /\ GenuineCycle(xml, i, j)) =>
               /\ result = "unresolved"
               /\ \E k \in DOMAIN unresolved : unresolved[k] = xml.scenes[i].id
               /\ \E k \in DOMAIN unresolved : unresolved[k] = xml.scenes[j].id
               /\ (\A o \in DOMAIN xml.scenes \ {i, j} : Resolved(o)) =>
                     unresolved = <<xml.scenes[i].id, xml.scenes[j].id>>
C3_Witness ==
    /\ Done /\ GenuineCycle(xml, 1, 2) /\ Resolved(3) /\ passes = 2
    /\ result = "unresolved" /\ unresolved = <<"a", "b">>

\* The ids of all cue elements below el, with multiplicity (as a sequence)
RECURSIVE CueIdsIn(_)
RECURSIVE CueIdsOfList(_, _)
CueIdsOfList(children, i) ==
    IF i > Len(children) THEN <<>>
    ELSE CueIdsIn(children[i]) \o CueIdsOfList(children, i + 1)
CueIdsIn(el) ==
    (IF el.tag = "cue" THEN <<el.id>> ELSE <<>>) \o CueIdsOfList(el.children, 1)
SharedCueId(root) ==
    \E i, j \in 1..Len(CueIdsOfList(root.scenes, 1)) :
        i /= j /\ CueIdsOfList(root.scenes, 1)[i] = CueIdsOfList(root.scenes, 1)[j]

ExpectedStart(i) ==
    IF i = 1 THEN Some(0) ELSE Val(scenes[i - 1]).time.end
\* C5: a scene without a start attribute starts at the resolved end of the scene
\* before it (0 for the first scene), also when it carries a duration or an end.
\* (Stated for the scenes the resolver gives a start, after a scene it gave an
\* end: a scene left without any time is not held against the claim.)
C5_ImplicitStartIsPrevEnd ==
    (Done /\ result = "ok") =>
       \A i \in DOMAIN xml.scenes :
          (/\ ~IsSome(xml.scenes[i].start)
           /\ IsSome(Val(scenes[i]).time.start)
           /\ IsSome(ExpectedStart(i))) =>
              Val(scenes[i]).time.start = ExpectedStart(i)

\* C6: resolving the same markup again gives the same outcome: the same error,
\* or the same absolute times of every scene, cue and component.
C6_Deterministic ==
    \A i, j \in DOMAIN history : history[i] = history[j]
C6_Witness ==
    /\ Len(history) = MaxCalls
    /\ history[1].result = "ok"
    /\ \E i \in DOMAIN xml.scenes :
          /\ IsSome(xml.scenes[i].start) /\ Val(xml.scenes[i].start).k = "sceneEnd"
          /\ Len(Val(history[1].scenes[i]).items) > 0

\* ------------------------------------------------------------------------
\* Properties of the clocks and the players
\* ------------------------------------------------------------------------
Clock(g) == Val(timelines[g])
\* The step is an animation frame in which the running clock of g ticks with
\* its advanced time at or past its known duration
TicksPastEnd(g, loop) ==
    /\ now' /= now
    /\ Ticks(g)
    /\ Clock(g).running
    /\ Clock(g).clockMode = "bounded"
    /\ Clock(g).loop = loop
    /\ IsSome(Clock(g).duration)
    /\ NextTime(Clock(g), now') >= Val(Clock(g).duration)
\* Every subscriber of g was told time t in this step
Delivered(g, t) ==
    \A p \in SubSet(Clock(g)) :
        IsSome(players'[p].seen) /\ Val(players'[p].seen).time = t

\* C7: in bounded, non-looping mode with known duration D, the tick whose
\* advanced time is at or past D delivers exactly D to the subscribers, leaves
\* the clock stopped and schedules no further tick; while the clock stays
\* stopped (start is not called) no subscriber is notified.
C7_ClampAndStop ==
    [][\A g \in Groups :
          /\ TicksPastEnd(g, FALSE) =>
                /\ Val(timelines'[g]).time = Val(Clock(g).duration)
                /\ Delivered(g, Val(Clock(g).duration))
                /\ ~Val(timelines'[g]).running
                /\ ~Val(timelines'[g]).raf
          /\ (IsSome(timelines[g]) /\ ~Clock(g).running /\ ~Val(timelines'[g]).running) =>
                \A p \in SubSet(Clock(g)) \cap SubSet(Val(timelines'[g])) :
                    players'[p].seen = players[p].seen]_vars
\* A bounded, non-looping clock stopped at its duration D > 0, a subscriber
\* having been told D
C7_Witness ==
    \E g \in Groups :
       /\ IsSome(timelines[g])
       /\ Clock(g).clockMode = "bounded" /\ ~Clock(g).loop
       /\ IsSome(Clock(g).duration) /\ Val(Clock(g).duration) > 0
       /\ Clock(g).time = Val(Clock(g).duration)
       /\ ~Clock(g).running /\ ~Clock(g).raf
       /\ \E p \in SubSet(Clock(g)) :
             IsSome(players[p].seen) /\ Val(players[p].seen).time = Val(Clock(g).duration)

\* The step is an animation frame in which no tick handler calls stop()
NoStopInTick == \E d \in FrameDeltas : AnimationFrame(d, "none")
\* C8: in bounded, looping mode a tick whose advanced time t is at or past the
\* duration D sets the time to t modulo D when D > 0 and to 0 when D = 0,
\* delivers it, and (no handler calling stop meanwhile) leaves the clock running
\* with its next tick scheduled.
C8_LoopWraps ==
    [][\A g \in Groups :
          TicksPastEnd(g, TRUE) =>
             /\ Val(timelines'[g]).time =
                   IF Val(Clock(g).duration) > 0
                   THEN NextTime(Clock(g), now') % Val(Clock(g).duration)
                   ELSE 0
             /\ Delivered(g, Val(timelines'[g]).time)
             /\ NoStopInTick => (Val(timelines'[g]).running /\ Val(timelines'[g]).raf)]_vars
\* A looping clock with D > 0 that wrapped: its time is past 0 and below the
\* shortest frame, which only a wrap produces
C8_Witness ==
    \E g \in Groups :
       /\ IsSome(timelines[g])
       /\ Clock(g).clockMode = "bounded" /\ Clock(g).loop
       /\ IsSome(Clock(g).duration) /\ Val(Clock(g).duration) > 0
       /\ Clock(g).time > 0 /\ Clock(g).time < ShortFrame
       /\ Clock(g).running
       /\ \E p \in SubSet(Clock(g)) :
             IsSome(players[p].seen) /\ Val(players[p].seen).time = Clock(g).time

\* C9: two players mounted on the same synchronization group are told, in every
\* tick, the same time and derive the same frame number from it.
C9_SameTimeAndFrame ==
    [][now' /= now =>
          \A p, q \in Players :
             (Notified(p) /\ Notified(q) /\ players[p].group = players[q].group) =>
                 players'[p].seen = players'[q].seen]_vars

\* C10: unmounting a player while another player of its group stays mounted
\* only removes its subscription; the shared clock keeps its running state, its
\* scheduled tick, its time and its last timestamp.
C10_UnmountKeepsClock ==
    [][\A p, q \in Players :
          (/\ p /= q
           /\ players[p].mounted /\ ~players'[p].mounted
           /\ players[q].mounted /\ players[q].group = players[p].group) =>
              Val(timelines'[players[p].group]) =
                  [Clock(players[p].group) EXCEPT
                      !.subs = SelectSeq(@, LAMBDA x : x /= p)]]_vars

\* What identifies the clock object createTimeline returned: the values it closed
\* over
Identity(c) ==
    [id |-> c.id, fps |-> c.fps, clockMode |-> c.clockMode, loop |-> c.loop,
     duration |-> c.duration]
\* Player p is mounted by this step
Mounts(p) == ~players[p].mounted /\ players'[p].mounted
\* C11: a clock is created only by a mount, on a group key that has none yet;
\* a mount on a key that has a clock subscribes to that clock, which keeps its
\* identity, its time and the subscribers it had; a registered clock is never
\* removed from the registry nor replaced, whatever is mounted or unmounted.
C11_RegistryStable ==
    [][\A g \in Groups :
          /\ (~IsSome(timelines[g]) /\ IsSome(timelines'[g])) =>
                \E p \in Players : Mounts(p) /\ players'[p].group = g
          /\ IsSome(timelines[g]) =>
                /\ IsSome(timelines'[g])
                /\ Identity(Val(timelines'[g])) = Identity(Clock(g))
                /\ \A p \in Players :
                      (Mounts(p) /\ players'[p].group = g) =>
                         /\ Val(timelines'[g]).subs = Append(Clock(g).subs, p)
                         /\ Val(timelines'[g]).time = Clock(g).time
                         /\ Val(timelines'[g]).frame = Clock(g).frame]_vars
\* Two players on one clock that has run, the later one mounted with another
\* frame rate than the clock was created with
C11_Witness ==
    \E g \in Groups, p, q \in Players :
       /\ IsSome(timelines[g])
       /\ Clock(g).subs = <<p, q>>
       /\ Clock(g).time > 0
       /\ players[q].fps /= Clock(g).fps

\* Subscriber q comes after subscriber s in the order subs.forEach calls them
CalledAfter(c, s, q) ==
    \E i, j \in DOMAIN c.subs : i < j /\ c.subs[i] = s /\ c.subs[j] = q
\* What of a clock can be observed: lastTs is only read while it runs, after
\* start has reset it
Observable(c) == [c EXCEPT !.lastTs = None]
\* C16: stopping a clock is immediate and idempotent: when the handler of a
\* subscriber calls stop during a tick, the subscribers called after it are not
\* notified in that tick; while the clock stays stopped no subscriber is
\* notified; stop on a stopped clock changes nothing observable.
C16_StopImmediate ==
    [][\A g \in Groups :
          /\ \A d \in FrameDeltas, s, q \in Players :
                (AnimationFrame(d, s) /\ Notified(s) /\ players[s].group = g
                    /\ CalledAfter(Clock(g), s, q)) =>
                   players'[q].seen = players[q].seen
          /\ (IsSome(timelines[g]) /\ ~Clock(g).running /\ ~Val(timelines'[g]).running) =>
                \A p \in SubSet(Clock(g)) \cap SubSet(Val(timelines'[g])) :
                    players'[p].seen = players[p].seen
          /\ (IsSome(timelines[g]) /\ ~Clock(g).running /\ Stop(g)) =>
                Observable(Val(timelines'[g])) = Observable(Clock(g))]_vars

\* ------------------------------------------------------------------------
\* Properties of handleTick
\* ------------------------------------------------------------------------
\* This step is an animation frame in which player p's handleTick ran
Ticked(p) == now' /= now /\ Notified(p)
\* The scene events among the events of a tick, in their order
SceneEventsOf(events) ==
    SelectSeq(events, LAMBDA e : e.name \in {"scene:start", "scene:end"})
\* The active scene id derived from the timings at the time player p was told
DerivedActive(p) ==
    ActiveSceneId(players[p].scenes,
                  ActiveScenes(players[p].scenes, Val(players'[p].seen).time))

\* C12: in a tick where the derived active scene id changes from A to B the
\* player's scene events are scene:end(A) directly followed by scene:start(B);
\* when no scene was active before, scene:start(B) alone; and every
\* scene:end(X) finds the listener holding X open, that is, the last
\* scene:start before it was scene:start(X) and no scene:end came between
C12_EndBeforeStart ==
    [][\A p \in Players : Ticked(p) =>
        /\ (/\ IsSome(players[p].lastActiveSceneId) /\ IsSome(DerivedActive(p))
            /\ players[p].lastActiveSceneId /= DerivedActive(p))
           => SceneEventsOf(players'[p].events)
                = <<Event("scene:end", Val(players[p].lastActiveSceneId)),
                    Event("scene:start", Val(DerivedActive(p)))>>
        /\ (~IsSome(players[p].lastActiveSceneId) /\ IsSome(DerivedActive(p)))
           => SceneEventsOf(players'[p].events)
                = <<Event("scene:start", Val(DerivedActive(p)))>>
        /\ (players[p].lastActiveSceneId = DerivedActive(p))
           => SceneEventsOf(players'[p].events) = <<>>
        /\ \A k \in DOMAIN players'[p].events :
              players'[p].events[k].name = "scene:end"
              => OpenAfter(players[p].openScene, players'[p].events, k - 1)
                   = Some(players'[p].events[k].id)]_vars
\* p1 went from a to b in one tick after a had been started in an earlier one
C12_Witness ==
    /\ players["p1"].mounted
    /\ SceneEventsOf(players["p1"].events)
         = <<Event("scene:end", "a"), Event("scene:start", "b")>>
    /\ players["p1"].openScene = Some("b")

\* The timed elements of the scene player pl holds active, as <<scene, path>>
\* keys with their interval
ActiveTimed(pl) ==
    {[key |-> <<i, pl.timed[i][j].path>>, start |-> pl.timed[i][j].start,
      end |-> pl.timed[i][j].end] :
        i \in {MaxOf(ActiveScenes(pl.scenes, Val(pl.seen).time))},
        j \in DOMAIN pl.timed[MaxOf(ActiveScenes(pl.scenes, Val(pl.seen).time))]}
HasActive(pl) ==
    pl.mounted /\ IsSome(pl.seen) /\ ActiveScenes(pl.scenes, Val(pl.seen).time) /= {}

\* C13: after every tick each timed element of the active scene (the last scene
\* active at the tick's time) is shown exactly when start <= time < end, and
\* hidden otherwise; at time = end it is hidden
C13_HalfOpenVisibility ==
    \A p \in Players : HasActive(players[p]) =>
        \A it \in ActiveTimed(players[p]) :
            (it.key \notin players[p].hidden)
            <=> (it.start <= Val(players[p].seen).time
                 /\ Val(players[p].seen).time < it.end)
\* At exactly 2 s, in a scene that is still active, the element with start=1
\* end=2 is hidden and the element that starts at 2 is shown
C13_Witness ==
    /\ HasActive(players["p1"])
    /\ Val(players["p1"].seen).time = 2 * MsPerSec
    /\ \E it \in ActiveTimed(players["p1"]) :
          it.start = MsPerSec /\ it.end = 2 * MsPerSec /\ it.key \in players["p1"].hidden
    /\ \E it \in ActiveTimed(players["p1"]) :
          it.start = 2 * MsPerSec /\ it.key \notin players["p1"].hidden

\* ------------------------------------------------------------------------
\* Properties of the patch loop
\* ------------------------------------------------------------------------
PatchErrors == {"not found", "sealed"}
\* The loop is about to run the patch at patchIndex
AtPatch == patched = "" /\ patchIndex <= Len(patches)
\* The element the patch addresses, none when no element carries the id
Target(patch) == findById(doc, TargetId(patch), <<>>)
\* The element at path is a sealed scene or lies below one, at any depth
InSealedScene(tree, path) ==
    \E k \in 0..Len(path) :
        /\ NodeAt(tree, SubSeq(path, 1, k)).tag = "scene"
        /\ SealedMark(NodeAt(tree, SubSeq(path, 1, k)))

\* C14: with sealing enforced, an appendNode, removeNode, setAttr, setText or
\* replaceSubtree patch whose target lies in the subtree of a sealed scene, at
\* whatever depth, throws the sealed-scene error and leaves the document as it was
C14_SealedRejects ==
    [][(/\ AtPatch /\ enforceSealed
        /\ patches[patchIndex].op /= "sealScene"
        /\ IsSome(Target(patches[patchIndex]))
        /\ InSealedScene(doc, OrElse(Target(patches[patchIndex]), <<>>)))
       => (patched' = "sealed" /\ doc' = doc)]_vars

\* The document after the first n patches of the batch
RECURSIVE AfterPatches(_, _, _, _)
AfterPatches(tree, batch, n, enforce) ==
    IF n = 0 THEN tree
    ELSE applyPatch(AfterPatches(tree, batch, n - 1, enforce), batch[n], enforce).doc
\* The patch names an id no element carries, or one the sealing check refuses
Fails(patch) ==
    \/ ~IsSome(Target(patch))
    \/ /\ patch.op /= "sealScene"
       /\ ThrowsSealed(doc, OrElse(Target(patch), <<>>), enforceSealed)

\* The failing patch ends the loop: it throws before it touches the parsed
\* document, which then is what the patches before it produced, and no step of
\* the call follows
FailureEndsLoop ==
    [][/\ (AtPatch /\ Fails(patches[patchIndex]))
          => /\ patched' \in PatchErrors
             /\ doc' = doc
             /\ doc' = AfterPatches(patchXml, patches, patchIndex - 1, enforceSealed)
       /\ patched' \in PatchErrors => ~(ENABLED PatchNext)']_vars
\* The document the call leaves its caller with: the serialized parse when it
\* returned; when it threw, the parse is gone with the call and the caller holds
\* the xml it passed
Left == IF patched = "ok" THEN doc ELSE patchXml

C17_SupersededDiscarded ==
    [][\A r \in DOMAIN renders : renders[r].cancelled =>
          /\ (r \in live' => r \in live)
          /\ (r \in errors' => r \in errors)]_vars

\* ------------------------------------------------------------------------
\* Properties of the timings
\* ------------------------------------------------------------------------
\* The fps attribute as the composition root declares it, 30 when it has none
DeclaredFps(root) == IF IsSome(root.fps) THEN ParseFloat(Val(root.fps)) ELSE DefaultFps
\* A literal in milliseconds: value / fps for f, value / 1000 for ms, else value
Seconds(literal, fps) ==
    IF literal.unit = "f" THEN (literal.v * MsPerSec) \div fps
    ELSE IF literal.unit = "ms" THEN literal.v
    ELSE literal.v * MsPerSec
\* The duration literal of the first scene, when the document declares one
IsUnitDoc(root) ==
    /\ IsSome(root.scenes[1].duration)
    /\ Val(root.scenes[1].duration).k = "num"
    /\ root.scenes[1].start = Sec(0)
DeclaredLength(root) == Seconds(Val(root.scenes[1].duration), DeclaredFps(root))
\* The length of the first scene as the resolver returns it
ResolvedLength ==
    Val(Val(Val(compiled).scenes[1]).time.end) - Val(Val(Val(compiled).scenes[1]).time.start)
\* The length of the first scene in the timings the scheduler uses
ScheduledLength ==
    Val(Val(scheduled).timing.scenes[1].end) - Val(scheduled).timing.scenes[1].start
ResolverConverts ==
    IsSome(compiled) /\ IsUnitDoc(timingXml) =>
        /\ Val(compiled).result = "ok"
        /\ IsSome(Val(compiled).scenes[1])
        /\ IsSome(Val(Val(compiled).scenes[1]).time.end)
        /\ ResolvedLength = DeclaredLength(timingXml)
SchedulerConverts ==
    IsSome(scheduled) /\ IsUnitDoc(timingXml) =>
        /\ IsSome(Val(scheduled).timing.scenes[1].end)
        /\ ScheduledLength = DeclaredLength(timingXml)

\* C18: a scene declared to last a numeric literal lasts value / fps seconds for
\* the suffix f, with fps the fps attribute of the composition root (30 only when
\* absent), value / 1000 for ms and value for s or no suffix, in the resolver's
\* result and in the timings the scheduler uses
C18_UnitConversion == ResolverConverts /\ SchedulerConverts

\* The container of the first scene and its children
TheContainer == timingXml.scenes[1].children[1]
HasContainer(tag) ==
    /\ Len(timingXml.scenes[1].children) = 1
    /\ TheContainer.tag = tag
\* The start the container declares, 0 when it declares none
ContainerStart ==
    IF IsSome(TheContainer.start)
    THEN Seconds(Val(TheContainer.start), DeclaredFps(timingXml)) ELSE 0
\* The window [start, end] of every child of the container: as the resolver
\* returns it, and as the scheduler holds it (no end: the child is not timed)
NoWindow == [start |-> NaN, end |-> None]
ResolvedWindows ==
    [k \in 1..Len(TheContainer.children) |->
        IF k \in DOMAIN Val(Val(compiled).container).components
        THEN [start |-> Val(Val(Val(compiled).container).components[k].startSec),
              end |-> Val(Val(compiled).container).components[k].endSec]
        ELSE NoWindow]
TimedAt(timed, path) == {i \in DOMAIN timed : timed[i].path = path}
ScheduledWindows ==
    [k \in 1..Len(TheContainer.children) |->
        IF TimedAt(Val(scheduled).timing.timed[1], <<1, k>>) = {} THEN NoWindow
        ELSE LET i == CHOOSE i \in TimedAt(Val(scheduled).timing.timed[1], <<1, k>>) : TRUE
             IN  [start |-> Val(scheduled).timing.timed[1][i].start,
                  end |-> Some(Val(scheduled).timing.timed[1][i].end)]]
\* The windows w of the children chain: a child without start begins where the
\* child before it ends, the first one at the container's start
Chained(children, w, containerStart) ==
    \A k \in DOMAIN children :
        ~IsSome(children[k].start) =>
            w[k].start = IF k = 1 THEN containerStart ELSE Val(w[k - 1].end)
\* A child that declares a duration ends at its start plus that duration
EndsAfterDuration(children, w, fps) ==
    \A k \in DOMAIN children :
        IsSome(children[k].duration) =>
            w[k].end = Some(w[k].start + Seconds(Val(children[k].duration), fps))

\* C19: in a sequence container a child without start begins at the resolved end
\* of the child before it, the first child at the container's start, and a child
\* ends at its start plus its duration, in the resolver's result and in the
\* scheduler's timed elements
C19_SequenceChained ==
    /\ IsSome(compiled) /\ HasContainer("sequence") =>
          /\ Chained(TheContainer.children, ResolvedWindows, ContainerStart)
          /\ EndsAfterDuration(TheContainer.children, ResolvedWindows,
                               DeclaredFps(timingXml))
    /\ IsSome(scheduled) /\ HasContainer("sequence") =>
          /\ Chained(TheContainer.children, ScheduledWindows, ContainerStart)
          /\ EndsAfterDuration(TheContainer.children, ScheduledWindows,
                               DeclaredFps(timingXml))

\* The chaining alone, with every end taken as resolved, holds on both sides
SequenceChainHolds ==
    /\ IsSome(compiled) /\ HasContainer("sequence") =>
          Chained(TheContainer.children, ResolvedWindows, ContainerStart)
    /\ IsSome(scheduled) /\ HasContainer("sequence") =>
          Chained(TheContainer.children, ScheduledWindows, ContainerStart)

\* The start offset a child declares, 0 when it declares none
StartOffset(child, fps) ==
    IF IsSome(child.start) THEN Seconds(Val(child.start), fps) ELSE 0
\* Every child with a window starts at the container's start plus its offset
StartsAtOffset(children, w, containerStart, fps) ==
    \A k \in DOMAIN children :
        w[k] /= NoWindow => w[k].start = containerStart + StartOffset(children[k], fps)
\* The greatest end among the windows w that have one, none when none has
Ended(w) == {k \in DOMAIN w : IsSome(w[k].end)}
MaxResolvedEnd(w) ==
    IF Ended(w) = {} THEN None
    ELSE Some(CHOOSE e \in {Val(w[k].end) : k \in Ended(w)} :
                  \A k \in Ended(w) : Val(w[k].end) <= e)
\* The implicit end of the container: what parseContainerChildren returns as
\* maxEnd, and the container's start plus what elementDuration returns
ResolvedContainerEnd == Val(Val(compiled).container).maxEnd
ScheduledContainerEnd ==
    IF IsSome(Val(scheduled).containerDuration)
    THEN Some(ContainerStart + Val(Val(scheduled).containerDuration)) ELSE None
ResolverStacks ==
    IsSome(compiled) /\ HasContainer("stack") =>
        /\ StartsAtOffset(TheContainer.children, ResolvedWindows, ContainerStart,
                       DeclaredFps(timingXml))
        /\ ResolvedContainerEnd = MaxResolvedEnd(ResolvedWindows)
SchedulerStacks ==
    IsSome(scheduled) /\ HasContainer("stack") =>
        /\ StartsAtOffset(TheContainer.children, ScheduledWindows, ContainerStart,
                       DeclaredFps(timingXml))
        /\ ScheduledContainerEnd = MaxResolvedEnd(ScheduledWindows)

\* C20: in a stack container every child starts at the container's start plus
\* its own start offset, and the implicit end of the container is the greatest
\* of its children's resolved ends, in the resolver and in the scheduler
C20_StackMaxEnd == ResolverStacks /\ SchedulerStacks

\* ------------------------------------------------------------------------
\* Properties of mountVmlPlayer
\* ------------------------------------------------------------------------
\* The step is a mount of p that ended with an error
FailsToMount(p) == IsSome(players'[p].error) /\ players'[p] /= players[p]
MountErrors ==
    {"root", "vmlId", "sceneId", "cueId", "duplicate", "json", "unresolved",
     "noScenes", "MissingTimeReferenceError"}

ResolvedScene(i) == Val(Val(compiled).scenes[i])
RECURSIVE ItemsFrom(_, _)
ItemsFrom(resolved, i) ==
    IF i > Len(resolved) THEN <<>>
    ELSE Val(resolved[i]).items \o ItemsFrom(resolved, i + 1)
\* The times of a scheduler entry and of a resolver entry as <<start, end>>
Window(s, e) == <<s, e>>
SceneWindows(timing) ==
    [i \in DOMAIN timing |-> Window(Some(timing[i].start), timing[i].end)]
ResolvedSceneWindows(resolved) ==
    [i \in DOMAIN resolved |-> Window(Val(resolved[i]).time.start, Val(resolved[i]).time.end)]
CueWindows(list) ==
    [i \in DOMAIN list |-> <<list[i].id, list[i].start, list[i].end>>]
ItemWindows(items) ==
    [i \in DOMAIN items |-> <<items[i].id, Val(items[i].start), items[i].end>>]

\* C22: the scene and cue start/end times the scheduler classifies against are
\* the times of the composition the resolver returns for the same markup, for
\* every scene and cue, also when a time is written over other scenes or cues
C22_SchedulerUsesResolvedTimes ==
    IsSome(compiled) /\ IsSome(scheduled) =>
        /\ SceneWindows(Val(scheduled).timing.scenes)
               = ResolvedSceneWindows(Val(compiled).scenes)
        /\ CueWindows(Val(scheduled).timing.cues)
               = ItemWindows(ItemsFrom(Val(compiled).scenes, 1))

\* C23: the unresolved-reference signal never reaches the caller as such: a
\* reference that cannot be resolved, in whichever time-valued attribute of the
\* document it is written, is consumed by a retry of the pass loop or reaches
\* the caller as the 'Unresolved time references for scenes' error
C23_SignalNeverEscapes ==
    \A p \in Players : players[p].error /= Some("MissingTimeReferenceError")

\* ------------------------------------------------------------------------
\* Properties of the pass loop
\* ------------------------------------------------------------------------
\* How a call that is over left the loop: the pending set was empty; a full
\* pass made no progress and the error names the pending scenes; the pass count
\* exceeded sceneCount + 2; or a scene's attempt threw an error other than the
\* unresolved-reference signal, which the catch block throws on
EndedEmpty == result \in {"ok", "noScenes"} /\ pending = {}
EndedStuck ==
    /\ result = "unresolved" /\ pending /= {} /\ ~progressed
    /\ unresolved = UnresolvedNames(xml, pending)
EndedOver ==
    result = "noConverge" /\ pending /= {} /\ progressed /\ passes > Len(xml.scenes) + 2
EndedThrown ==
    /\ result \in {"sceneId", "cueId", "layerId", "duplicate", "needsStart", "json"}
    /\ pending /= {}
ExactlyOne(ways) == Cardinality({i \in DOMAIN ways : ways[i]}) = 1
\* Every call that was entered comes to its end
PassLoopTerminates == (rpc \in {"while", "for"}) ~> (rpc = "done")

\* C24: for every input the pass loop terminates, and in exactly one of three
\* ways: the pending set is empty, a full pass made no progress (the error names
\* the unresolved scene ids), or the pass count exceeded sceneCount + 2
C24_ThreeWays ==
    rpc = "done" => ExactlyOne(<<EndedEmpty, EndedStuck, EndedOver>>)
\* C24 as amended: the loop terminates, and in exactly one of four ways: the
\* three above, or an error other than the unresolved-reference signal thrown by
\* a scene's attempt leaves the loop at once
C24_TerminatesFourWays ==
    /\ PassLoopTerminates
    /\ [](rpc = "done" => ExactlyOne(<<EndedEmpty, EndedStuck, EndedOver, EndedThrown>>))
\* A call ended on an error thrown on in its second pass, with a scene pending
C24_Witness ==
    /\ rpc = "done"
    /\ EndedThrown
    /\ passes >= 1

\* ------------------------------------------------------------------------
\* Properties of the scene loop and the cue loop
\* ------------------------------------------------------------------------
\* The players that have handled a tick, and the time of their last one
HasTicked == {p \in Players : players[p].mounted /\ IsSome(players[p].seen)}
LastTime(p) == Val(players[p].seen).time
\* The bound a scene is active below: its own end, else the start of the scene
\* after it; the last scene without end has none
Bounded(list, i) == IsSome(list[i].end) \/ i < Len(list)
UpperBound(list, i) ==
    IF IsSome(list[i].end) THEN Val(list[i].end) ELSE list[i + 1].start
InWindow(list, i, t) ==
    /\ t >= list[i].start
    /\ Bounded(list, i) => t < UpperBound(list, i)
LastInWindow(list, t) ==
    CHOOSE i \in DOMAIN list :
        /\ InWindow(list, i, t)
        /\ \A j \in DOMAIN list : InWindow(list, j, t) => j <= i

\* A tick found two scenes active at once and took the later one for its events
TwoActive ==
    \E p \in HasTicked :
        /\ Cardinality(players[p].activeScenes) = 2
        /\ players[p].lastActiveSceneId = Some("b")

\* C25: after every tick the scene at index i is marked active iff time >=
\* scene[i].start and time < upperBound (scene[i].end when present, else
\* scene[i+1].start, else none for the last scene), each scene on its own; the
\* active scene id used for the events is that of the last active scene in
\* iteration order
C25_SceneActivation ==
    \A p \in HasTicked :
        /\ \A i \in DOMAIN players[p].scenes :
               (i \in players[p].activeScenes)
                   <=> InWindow(players[p].scenes, i, LastTime(p))
        /\ players[p].lastActiveSceneId =
               IF \E i \in DOMAIN players[p].scenes :
                      InWindow(players[p].scenes, i, LastTime(p))
               THEN Some(players[p].scenes[LastInWindow(players[p].scenes, LastTime(p))].id)
               ELSE None
\* A tick past the start of the next scene closed a scene that has no end of
\* its own
C25_Witness ==
    \E p \in HasTicked :
        /\ ~IsSome(players[p].scenes[1].end)
        /\ Len(players[p].scenes) > 1
        /\ LastTime(p) >= players[p].scenes[2].start
        /\ 1 \notin players[p].activeScenes
        /\ 2 \in players[p].activeScenes

\* The ids of the tracked cues whose half-open window holds t
CuesOn(list, t) ==
    {list[i].id : i \in {j \in DOMAIN list :
        /\ t >= list[j].start
        /\ IsSome(list[j].end) => t < Val(list[j].end)}}
\* The cue ids an event of the given name was dispatched for in the last tick
Dispatched(pl, name) ==
    {pl.events[i].id : i \in {j \in DOMAIN pl.events : pl.events[j].name = name}}
CueSetExact(p) ==
    players'[p].activeCues = CuesOn(players'[p].cues, Val(players'[p].seen).time)
CueEventsOnChange(p) ==
    /\ Dispatched(players'[p], "cue:start") = players'[p].activeCues \ players[p].activeCues
    /\ Dispatched(players'[p], "cue:end") = players[p].activeCues \ players'[p].activeCues

\* C26: after every tick the set of active cue ids is exactly the set of the
\* tracked cues with start <= time and (no end or time < end), whichever scene
\* is active; cue-start is dispatched exactly on the ticks where a cue id enters
\* the set and cue-end exactly where it leaves it
C26_CueSetAndEvents ==
    [][\A p \in Players : Ticked(p) => CueSetExact(p) /\ CueEventsOnChange(p)]_vars

\* ------------------------------------------------------------------------
\* Properties of the implicit scene end
\* ------------------------------------------------------------------------
\* The first scene declares neither end nor duration and holds one container
OpenScene ==
    /\ ~IsSome(timingXml.scenes[1].end)
    /\ ~IsSome(timingXml.scenes[1].duration)
    /\ Len(timingXml.scenes[1].children) = 1
    /\ TheContainer.tag \in {"sequence", "stack"}
\* The end the scheduler gives the first scene, and the one the resolver gives it
ScheduledSceneEnd == Val(scheduled).timing.scenes[1].end
ResolvedSceneEnd ==
    IF Val(Val(compiled).scenes[1]).time.def
    THEN Val(Val(compiled).scenes[1]).time.end ELSE None
\* A descendant is timed when it declares a start, an end or a duration
IsTimed(child) == IsSome(child.start) \/ IsSome(child.end) \/ IsSome(child.duration)
\* The end of a timed child that starts at childStart, in a container at base
EndOfChild(child, base, childStart, fps) ==
    IF IsSome(child.duration) THEN childStart + Seconds(Val(child.duration), fps)
    ELSE IF IsSome(child.end) THEN base + Seconds(Val(child.end), fps)
    ELSE childStart
LaterOf(maxEnd, e) == IF ~IsSome(maxEnd) \/ e > Val(maxEnd) THEN Some(e) ELSE maxEnd
\* The greatest end among the timed children of a container at base: in a
\* sequence a child without start begins where the timed child before it ended
RECURSIVE TimedSpan(_, _, _, _, _, _)
RECURSIVE TimedSpanOn(_, _, _, _, _, _)
TimedSpan(flow, children, i, base, cursor, maxEnd) ==
    IF i > Len(children) THEN maxEnd
    ELSE IF ~IsTimed(children[i])
    THEN TimedSpan(flow, children, i + 1, base, cursor, maxEnd)
    ELSE TimedSpanOn(flow, children, i, base, maxEnd,
             EndOfChild(children[i], base,
                 IF IsSome(children[i].start)
                 THEN base + Seconds(Val(children[i].start), DeclaredFps(timingXml))
                 ELSE IF flow = "sequence" THEN cursor ELSE base,
                 DeclaredFps(timingXml)))
TimedSpanOn(flow, children, i, base, maxEnd, e) ==
    TimedSpan(flow, children, i + 1, base, e, LaterOf(maxEnd, e))
\* The end the first scene is to get from its container
EndFromDescendants ==
    TimedSpan(TheContainer.tag, TheContainer.children, 1, ContainerStart, ContainerStart,
              None)
SchedulerDefaultsEnd ==
    (IsSome(scheduled) /\ OpenScene) => ScheduledSceneEnd = EndFromDescendants
ResolverDefaultsEnd ==
    (IsSome(compiled) /\ Val(compiled).result = "ok" /\ OpenScene) =>
        ResolvedSceneEnd = EndFromDescendants

\* C27: a scene with no explicit end or duration gets as its end the greatest
\* resolved end among its timed descendants (the chained span of a sequence, the
\* greatest child end of a stack); descendants without timing do not prevent
\* this, and the end stays open only when the scene has no timed descendant
C27_SceneEndFromDescendants == SchedulerDefaultsEnd

\* The documents the failure is looked for in: every timed child of the
\* container is written in seconds, so that both readers take the same lengths
InSeconds(child) ==
    \A a \in {child.start, child.end, child.duration} : IsSome(a) => Val(a).unit \in {"s", ""}
AllInSeconds == \A k \in DOMAIN TheContainer.children : InSeconds(TheContainer.children[k])
AllTimed == \A k \in DOMAIN TheContainer.children : IsTimed(TheContainer.children[k])
\* With every child timed, and in seconds, the scheduler gives the scene the end
SchedulerDefaultsEndAllTimed ==
    (OpenScene /\ AllInSeconds /\ AllTimed) => SchedulerDefaultsEnd
\* The scheduler leaves the end open although a descendant is timed
OpenDespiteTimed ==
    /\ IsSome(scheduled) /\ OpenScene /\ AllInSeconds
    /\ ~IsSome(ScheduledSceneEnd)
    /\ IsSome(EndFromDescendants)

\* ------------------------------------------------------------------------
\* Properties of the clock's time
\* ------------------------------------------------------------------------
\* The step starts the clock of g: it runs after the step and did not before
Begins(g) ==
    /\ IsSome(timelines'[g]) /\ Val(timelines'[g]).running
    /\ IsSome(timelines[g]) => ~Clock(g).running
TimeBefore(g) == IF IsSome(timelines[g]) THEN Clock(g).time ELSE 0
\* The step is an animation frame in which the clock of g ticks
TickOf(g) == now' /= now /\ Ticks(g) /\ Clock(g).running
\* The tick takes a bounded clock to its duration or past it
ReachesEnd(g, advanced) ==
    /\ Clock(g).clockMode = "bounded"
    /\ IsSome(Clock(g).duration)
    /\ advanced >= Val(Clock(g).duration)
\* Every subscriber of g holds the clock's time as the last one it was told
Delivered_Now(g) ==
    /\ SubSet(Clock(g)) /= {}
    /\ \A p \in SubSet(Clock(g)) :
           IsSome(players[p].seen) /\ Val(players[p].seen).time = Clock(g).time
\* The time the tick sets and delivers
TickGives(g, t) == Val(timelines'[g]).time = t /\ Delivered(g, t)

\* C28: clock time does not advance while the clock is stopped: a start leaves
\* the time as it was, the first tick after a start (the initial one or a
\* restart after stop) advances it by zero and delivers the time the clock had
\* when it was stopped, and each later tick advances it by the difference of its
\* timestamp from the previous tick's (up to the duration of a bounded clock)
C28_NoAdvanceWhileStopped ==
    [][\A g \in Groups :
          /\ Begins(g) =>
                /\ Val(timelines'[g]).time = TimeBefore(g)
                /\ Val(timelines'[g]).lastTs = None
          /\ (~TickOf(g) /\ IsSome(timelines'[g])) =>
                Val(timelines'[g]).time = TimeBefore(g)
          /\ (TickOf(g) /\ ~IsSome(Clock(g).lastTs)) => TickGives(g, Clock(g).time)
          /\ (/\ TickOf(g) /\ IsSome(Clock(g).lastTs)
              /\ ~ReachesEnd(g, Clock(g).time + (now' - Val(Clock(g).lastTs)))) =>
                /\ TickGives(g, Clock(g).time + (now' - Val(Clock(g).lastTs)))
                /\ Val(Clock(g).lastTs) = now]_vars
\* A bounded clock that had run to its end was started again and has ticked:
\* the tick delivered the duration once more (the player saw no scene end in
\* it, the last scene having ended in the tick before) and stopped the clock
C28_Witness ==
    \E g \in Groups :
        /\ IsSome(timelines[g])
        /\ Clock(g).clockMode = "bounded" /\ ~Clock(g).loop
        /\ ~Clock(g).running
        /\ Clock(g).lastTs = Some(now)
        /\ Clock(g).duration = Some(Clock(g).time)
        /\ Clock(g).time > 0
        /\ Delivered_Now(g)
        /\ \A p \in SubSet(Clock(g)) :
              /\ players[p].scenes[Len(players[p].scenes)].end = Some(Clock(g).time)
              /\ players[p].events = <<Event("timeline:tick", "")>>

\* ------------------------------------------------------------------------
\* Properties of the order of the ticks
\* ------------------------------------------------------------------------
\* The step begins a tick of the followed clock: its time is set and the
\* delivery to the subscribers starts
TickBegins == ticker.pc = "idle" /\ ticker'.pc = "deliver"
\* The tick wrapped: a bounded looping clock came to its duration or past it
Wrapped(c, ts) ==
    /\ c.clockMode = "bounded" /\ c.loop /\ IsSome(c.duration)
    /\ c.time + (ts - OrElse(c.lastTs, ts)) >= Val(c.duration)
\* The times delivered on successive ticks do not decrease, but for a wrap
MonotonicTimes ==
    [][TickBegins =>
          \/ ticker'.c.time >= ticker.c.time
          \/ Wrapped(ticker.c, ticker.ts)]_vars
\* While a tick's callbacks are being called no tick has been requested since
\* the tick began
CallbacksBeforeRequest == ticker.pc = "deliver" => ticker.nextId = ticker.atTick

\* C29: given non-decreasing frame timestamps, the times delivered to the
\* subscribers on successive ticks of one clock are non-decreasing, across any
\* sequence of start, stop and tick, except on a tick that wrapped in bounded
\* looping mode; and all subscriber callbacks of a tick have returned before the
\* next tick of that clock is scheduled
C29_MonotonicAndSequential == MonotonicTimes /\ []CallbacksBeforeRequest

\* ------------------------------------------------------------------------
\* Properties of the cleanup function
\* ------------------------------------------------------------------------
\* A player that is cleaned up, and stays so in the step, changes nothing of
\* what it published: its handler and its flush are not called
QuietAfterCleanup ==
    [][\A p \in Players :
          (~players[p].mounted /\ ~players'[p].mounted) => players'[p] = players[p]]_vars
\* No player has delivered anything after its cleanup function had run
NothingLate == \A p \in Players : players[p].late = <<>>

\* C30: after a player's cleanup function has run, its tick handler is never
\* invoked again and the player delivers no further tick, scene, cue,
\* onTimeUpdate or onXmlChange notification, also when the shared clock keeps
\* running and when a change flush was pending at the time of the cleanup
C30_NothingAfterCleanup == QuietAfterCleanup /\ []NothingLate

\* ------------------------------------------------------------------------
\* Properties of the change observer
\* ------------------------------------------------------------------------
\* The step is an observer callback of p, and the step is a flush of p
Notifies(p) == players'[p].mounted /\ players'[p].batch = players[p].batch + 1
Flushes(p) ==
    players'[p].mounted /\ players'[p].flushRequests = players[p].flushRequests - 1
\* At most one flushObserver callback waits for a frame
OneFlushPending == \A p \in Players : players[p].flushRequests <= 1
\* Every notification leaves one flush waiting, and the flush takes all the
\* notifications since the one before: it calls onXmlChange at most once, with
\* the tree as it is
OneFlushPerFrame ==
    [][\A p \in Players :
          /\ Notifies(p) => players'[p].flushRequests = 1
          /\ Flushes(p) =>
                /\ players'[p].flushRequests = 0
                /\ players'[p].batch = 0
                /\ players'[p].xmlChanges \in {players[p].xmlChanges,
                                              players[p].xmlChanges + 1}
                /\ players'[p].xmlChanges /= players[p].xmlChanges =>
                      players'[p].lastXml = Some(players[p].edits)]_vars

\* C31: any number of tree-change notifications that arrive before the next
\* frame produce exactly one flush at that frame (one re-bind and at most one
\* onXmlChange call carrying the tree as of the flush); at most one flush
\* callback is pending at any time, and a change arriving after a flush
\* schedules a new one
C31_OneFlushPerFrame == OneFlushPerFrame /\ []OneFlushPending
\* Two notifications arrived after an earlier flush and wait for one flush
C31_Witness ==
    /\ players["p1"].mounted
    /\ players["p1"].xmlChanges = 1
    /\ players["p1"].batch = 2
    /\ players["p1"].flushRequests = 1

\* C32: re-binding and onXmlChange are triggered only by externally driven
\* edits of the live tree: the scheduler's own per-tick writes cause no flush,
\* so while the clock runs with no external edit onXmlChange is never called
C32_OnlyExternalEdits ==
    \A p \in Players :
        players[p].edits = 0 => players[p].xmlChanges = 0 /\ players[p].flushRequests = 0

\* ------------------------------------------------------------------------
\* The duplicate-cue-id error
\* ------------------------------------------------------------------------
\* C33: the duplicate-cue-id error is raised only when two distinct cue elements
\* share an id: a composition whose cue ids are pairwise distinct never fails
\* with that error, across any number of retry passes
C33_DuplicateOnlyWhenShared == (Done /\ result = "duplicate") => SharedCueId(xml)

\* ------------------------------------------------------------------------
\* The frame requests of one clock
\* ------------------------------------------------------------------------
\* The tick callbacks of the clock that wait for a frame, and those the frame
\* that is being served still has to run
FramePending == Cardinality(ticker.requests) <= 1
OneTickPerFrame == Cardinality(ticker.due) <= 1

\* C34: for a clock at most one animation-frame callback is pending at any
\* time, for every sequence of start, stop and tick, including start and stop
\* calls made by a subscriber during a tick; hence the subscribers are notified
\* at most once per display refresh
C34_OneFramePending == FramePending /\ OneTickPerFrame

\* ------------------------------------------------------------------------
\* The players of one vml-player element
\* ------------------------------------------------------------------------
\* The players the element mounted whose cleanup function has not been called
OneLive == Cardinality(live) <= 1
\* The cleanup slot gives up a cleanup function only when it has been called
CalledBeforeOverwritten ==
    [][\A r \in RenderIds :
          (cleanup = Some(r) /\ cleanup' /= Some(r)) => r \notin live']_vars

\* C35: for a vml-player element at most one player mounted by it is live at
\* any time, for every interleaving of the connected, attribute-changed and
\* disconnected callbacks with pending markup loads: the cleanup of every mount
\* is called before the cleanup slot is overwritten
C35_OneLivePlayer == CalledBeforeOverwritten /\ []OneLive

\* No render began since the element was last disconnected
NoneSince == \A r \in Begun : renders[r].dropped
NoneLiveWhenGone == (~connected /\ NoneSince) => live = {}
NoMountWhenGone ==
    [][\A r \in RenderIds : renders[r].dropped => (r \in live' => r \in live)]_vars

\* C36: after disconnectedCallback, with no later reconnect or attribute
\* change, no player mounted by that element is or becomes live: a render that
\* awaited its markup when the element was disconnected does not mount
\* afterwards
C36_NoneLiveAfterDisconnect == NoMountWhenGone /\ []NoneLiveWhenGone

\* ------------------------------------------------------------------------
\* The configuration of a shared clock
\* ------------------------------------------------------------------------
\* What a mount of the document root asks its clock to be
Asked(g, root, clockMode, loop) ==
    [id |-> g, fps |-> computeSceneTimings(root).fps, clockMode |-> clockMode,
     loop |-> loop, duration |-> computeSceneTimings(root).duration]
\* The step registers the clock of g: it is configured as the mount asks
ConfiguredByCreator(g) ==
    (~IsSome(timelines[g]) /\ IsSome(timelines'[g])) =>
        \E p \in Players, autoPlay \in BOOLEAN, o \in ClockOptions :
            \E root \in XmlsOf(p) :
                /\ Mount(p, root, autoPlay, o[1], o[2], g)
                /\ Identity(Val(timelines'[g])) = Asked(g, root, o[1], o[2])
                /\ Val(timelines'[g]).time = 0
\* The step mounts a player on the registered clock of g
KeptByLaterMounts(g) ==
    \A p \in Players :
        (IsSome(timelines[g]) /\ Mounts(p) /\ players'[p].group = g) =>
            /\ Identity(Val(timelines'[g])) = Identity(Clock(g))
            /\ Val(timelines'[g]).time = Clock(g).time

\* C37: the fps, clock mode, loop flag and duration of a shared clock are those
\* of the player that created it; later mounts on the same group never change
\* them and never reset the clock's current time
C37_CreatorConfigures ==
    [][\A g \in Groups : ConfiguredByCreator(g) /\ KeptByLaterMounts(g)]_vars
\* A bounded clock that has run, shared by the player that created it and a
\* later one whose document declares another frame rate
C37_Witness ==
    \E g \in Groups, p, q \in Players :
       /\ IsSome(timelines[g])
       /\ Clock(g).subs = <<p, q>>
       /\ Clock(g).clockMode = "bounded"
       /\ Clock(g).time > 0
       /\ players[p].fps = Clock(g).fps
       /\ players[q].fps /= Clock(g).fps

\* ------------------------------------------------------------------------
\* The number of passes
\* ------------------------------------------------------------------------
\* Between two passes every pass so far has taken a scene from the pending set
EveryPassRemoves ==
    rpc = "while" => passes + Cardinality(pending) <= Len(xml.scenes)

\* C38: the resolver performs at most sceneCount passes: every pass that does
\* not end in an error removes at least one pending scene, so the bound
\* passes > sceneCount + 2 is never exceeded and the error 'Time resolution did
\* not converge' is unreachable
C38_AtMostSceneCountPasses ==
    /\ EveryPassRemoves
    /\ passes <= Len(xml.scenes)
    /\ result /= "noConverge"
\* A chain of references that is resolved backwards, one scene in each pass
C38_Witness ==
    /\ Done /\ result = "ok"
    /\ passes = Len(xml.scenes)
    /\ passes = 3

\* ------------------------------------------------------------------------
\* The range of a bounded clock
\* ------------------------------------------------------------------------
\* A bounded clock that knows a duration D >= 0
KnowsEnd(c) == c.clockMode = "bounded" /\ IsSome(c.duration) /\ Val(c.duration) >= 0
WithinDuration(c) ==
    /\ 0 <= c.time
    /\ ~c.loop => c.time <= Val(c.duration)
    /\ (c.loop /\ Val(c.duration) > 0) => c.time < Val(c.duration)
\* Whatever was started, stopped and ticked, the time is within the duration
TimeInRange ==
    \A g \in Groups : (IsSome(timelines[g]) /\ KnowsEnd(Clock(g))) => WithinDuration(Clock(g))
\* A tick leaves the frame of the time it set
FrameFollowsTime ==
    [][\A g \in Groups :
          TickOf(g) =>
             Val(timelines'[g]).frame =
                FrameOf(Val(timelines'[g]).time, Val(timelines'[g]).fps)]_vars

\* C39: in bounded mode with a known duration D >= 0 and non-negative tick
\* deltas, after every tick the clock time is at least 0 and at most D when the
\* clock does not loop, and at least 0 and below D when it loops and D > 0,
\* across any sequence of start, stop and tick; the derived frame equals
\* floor(time * fps)
C39_TimeWithinDuration == FrameFollowsTime /\ []TimeInRange
\* A looping clock of duration D > 0 that has run for longer than D: its time
\* is below D and its frame that of its time
C39_Witness ==
    \E g \in Groups :
       /\ IsSome(timelines[g]) /\ KnowsEnd(Clock(g))
       /\ Clock(g).loop /\ Val(Clock(g).duration) > 0
       /\ now > Val(Clock(g).duration)
       /\ Clock(g).time > 0 /\ Clock(g).time < Val(Clock(g).duration)
       /\ Clock(g).frame > 0
       /\ Clock(g).frame = FrameOf(Clock(g).time, Clock(g).fps)

\* ------------------------------------------------------------------------
\* A sealed scene in the returned document
\* ------------------------------------------------------------------------
\* The element of the tree that carries the id (the root when none does)
ById(tree, id) == NodeAt(tree, OrElse(findById(tree, id, <<>>), <<>>))
\* The scene the k-th patch sealed is in the tree as that patch left it
AsSealed(tree, k) ==
    /\ IsSome(findById(tree, patches[k].sceneId, <<>>))
    /\ SealedMark(ById(tree, patches[k].sceneId))
    /\ ById(tree, patches[k].sceneId)
          = ById(AfterPatches(patchXml, patches, k, enforceSealed), patches[k].sceneId)

\* C40: with sealing enforced, once a sealScene patch has been applied to a
\* scene, no later patch of the batch can change it: in the returned document
\* the scene still carries its sealed mark and its subtree is identical to what
\* it was at the moment of sealing, whichever node ids the later patches address
C40_SealedSceneStays ==
    (patched = "ok" /\ enforceSealed) =>
        \A k \in DOMAIN patches : patches[k].op = "sealScene" => AsSealed(doc, k)
\* The same over the documents without a scene inside the scene
SealedStaysWithoutNesting ==
    (patched = "ok" /\ enforceSealed /\ ById(patchXml, "i").tag = "layer") =>
        \A k \in DOMAIN patches : patches[k].op = "sealScene" => AsSealed(doc, k)
\* The same over the batches that address no ancestor of the scene
SealedStaysBelowOnly ==
    (patched = "ok" /\ enforceSealed /\ \A k \in DOMAIN patches : TargetId(patches[k]) /= "v"
        /\ ById(patchXml, "i").tag = "layer") =>
        \A k \in DOMAIN patches : patches[k].op = "sealScene" => AsSealed(doc, k)

============================================================================
